---------------------------- MODULE Spec2Model ----------------------------
(***************************************************************************)
(* A model of the city-generation tool's two algorithmic cores:            *)
(*   - the tile-collapse solver (class WFCAlgorithm), and                  *)
(*   - the terrain engine (class TopographyGenerator).                     *)
(*                                                                         *)
(* Numbers: adjacency scores are held in hundredths (0.3 is 30), tile      *)
(* weights in hundredths (0.15 is 15; only weights w for which w * 100 is  *)
(* exact in IEEE doubles are used), so that `i < weight * 100` admits      *)
(* exactly `weight * 100` values of i.                                     *)
(***************************************************************************)
EXTENDS Integers, Sequences, FiniteSets, TLC

(***************************************************************************)
(* Bounds of the model.                                                    *)
(***************************************************************************)
\* the largest number of cells of a solver grid (gridWidth * gridHeight)
MaxCells == 4
\* the largest number of cells of an elevation grid given as such (rows * cols)
MaxFlowCells == 6
\* the largest elevation of such a grid, the elevations being 0..MaxElevation
MaxElevation == 2
\* the largest number of cells of a water mask given as such (rows * cols)
MaxMaskCells == 9
\* the largest width and height of a generated terrain, in cells
MaxTopoSpan == 2
\* the largest number of cells of a grid that generate builds
MaxGenCells == 2
\* the largest seed of the runs whose grids are turned into structures
MaxEmitSeed == 30
\* the largest number of cells of a solver grid of the fallback catalog
MaxFallbackCells == 3

(***************************************************************************)
(* Constants of the program.                                               *)
(***************************************************************************)
\* the `undefined` value of a tile id (a cell that has no tileId property,
\* or the element read past the end of an empty array)
Undefined == -1
\* the value of an absent matrix entry (matrix[a]?.[b] is undefined)
NoScore == -1
\* the compatibility threshold 0.3, in hundredths
CompatThreshold == 30
\* the modulus and the multiplier of Math.seededRandom
LcgModulus == 2147483647
LcgMultiplier == 16807
\* the value of Math_seed that stands for an unknown position of the stream:
\* every draw may then return any value of [0,1)
AnyStream == 0

VARIABLES
    tileset,           \* this.tileset: a catalog, or NoTileset (null)
    gridWidth,         \* collapseWaveFunction's gridWidth
    gridHeight,        \* collapseWaveFunction's gridHeight
    entropyThreshold,  \* collapseWaveFunction's entropyThreshold
    grid,              \* the grid: <<x, y>> -> cell
    iterations,        \* collapseWaveFunction's local `iterations`
    pc,                \* the solver's position
    current,           \* the cell chosen in this iteration (startX, startY)
    queue,             \* propagateConstraints' queue
    visited,           \* propagateConstraints' visited set
    processed,         \* the cells propagateConstraints has processed, in order
    Math_seed,         \* Math._seed
    loadPending,       \* whether the constructor's loadTileset() is unsettled
    params,            \* the params of the generate call under way
    generated,         \* the structures generate has returned, per params
    published,         \* the statistics updateStats has shown, each with
                       \* whether its run left the grid fully collapsed
    waterCells,        \* this.waterCells
    coastPolygons,     \* this.coastPolygons
    currentCity,       \* this.currentCity
    renderRequested,   \* this.renderRequested
    frames,            \* the callbacks requestAnimationFrame holds
    view,              \* the renderer's scale, offsetX and offsetY
    drawn,             \* the scale and offsets of the latest render
    pointers,          \* isPanning, activePointers, previousPinchDistance
    handled,           \* the pan and zoom events handled so far
    isGenerating,      \* this.isGenerating
    invocations,       \* the generateCity invocations: where each stands
    topo,              \* a TopographyGenerator: width, height, cellSize, params
    elevationGrid,     \* this.elevationGrid
    flowDirGrid,       \* this.flowDirGrid
    path,              \* getFlowPath's `path`
    flowCurrent,       \* getFlowPath's `current`
    tpc,               \* the terrain engine's position
    baseMask,          \* extractCoastlines' `baseMask`
    blobs,             \* extractCoastlines' `blobs`
    loops,             \* extractCoastlines' `loops`
    returned           \* the results each terrain call has returned so far

cityVars == <<waterCells, coastPolygons, currentCity, renderRequested, frames,
              view, drawn, pointers, handled, isGenerating, invocations>>

solverVars == <<tileset, gridWidth, gridHeight, entropyThreshold, grid,
                iterations, pc, current, queue, visited, processed, Math_seed,
                loadPending, params, generated, published, cityVars>>

terrainVars == <<topo, elevationGrid, flowDirGrid, path, flowCurrent, tpc,
                 baseMask, blobs, loops, returned>>

vars == <<solverVars, terrainVars>>

(***************************************************************************)
(* Sequence helpers.                                                       *)
(***************************************************************************)
RECURSIVE Filter(_, _)
\* Array.prototype.filter with a set as the predicate
Filter(s, keep) ==
    IF s = <<>> THEN <<>>
    ELSE IF Head(s) \in keep THEN <<Head(s)>> \o Filter(Tail(s), keep)
         ELSE Filter(Tail(s), keep)

Range(s) == {s[k] : k \in DOMAIN s}

RECURSIVE Repeat(_, _)
Repeat(v, n) == IF n <= 0 THEN <<>> ELSE <<v>> \o Repeat(v, n - 1)

(***************************************************************************)
(* The seeded stream (main.js).                                            *)
(***************************************************************************)
\* Math.seedrandom(seed)
SeedRandom(seed) ==
    LET s == seed % LcgModulus
    IN  IF s <= 0 THEN s + (LcgModulus - 1) ELSE s

\* Math._seed * 16807 % 2147483647, by Schrage's decomposition so that no
\* intermediate value leaves 32 bits (the product is exact in a double)
LcgNext(s) ==
    LET q == LcgModulus \div LcgMultiplier
        r == LcgModulus % LcgMultiplier
        t == LcgMultiplier * (s % q) - r * (s \div q)
    IN  IF t < 0 THEN t + LcgModulus ELSE t

RECURSIVE LcgAfter(_, _)
\* Math._seed after k calls of Math.seededRandom
LcgAfter(s, k) == IF k = 0 THEN s ELSE LcgAfter(LcgNext(s), k - 1)

RECURSIVE FloorMul(_, _, _, _)
\* floor(t * n / m) for 0 <= t < m, by adding t to a remainder n times
FloorMul(t, n, m, acc) ==
    IF n = 0 THEN acc[1]
    ELSE IF acc[2] >= m - t
         THEN FloorMul(t, n - 1, m, <<acc[1] + 1, acc[2] - (m - t)>>)
         ELSE FloorMul(t, n - 1, m, <<acc[1], acc[2] + t>>)

\* Math.floor(Math.seededRandom() * n), where s is Math._seed after the call
RandIndex(s, n) == FloorMul(s - 1, n, LcgModulus - 1, <<0, 0>>)

\* the values Math.floor(Math.seededRandom() * n) can take at the k-th call
\* from stream position s
Draw(s, k, n) ==
    IF s = AnyStream THEN 0 .. (IF n = 0 THEN 0 ELSE n - 1)
    ELSE {RandIndex(LcgAfter(s, k), n)}

\* Math._seed after k calls from stream position s
Advance(s, k) == IF s = AnyStream THEN AnyStream ELSE LcgAfter(s, k)

(***************************************************************************)
(* Tile catalogs.                                                          *)
(***************************************************************************)
NoTileset ==
    [tiles |-> <<>>, matrix |-> <<>>, buildingTypes |-> <<>>, loaded |-> "null"]

Tile(id, name, type, weight) ==
    [id |-> id, name |-> name, type |-> type, weight |-> weight]

FallbackTypes ==
    <<"residential", "commercial", "industrial", "park", "road", "empty">>

\* the mutant of FallbackScores: no category, road and empty included, is
\* compatible with an industrial neighbour
FallbackScoresShunIndustry ==
    << <<100, 80, 20, 100, 100, 70>>,
       << 80, 100, 30, 70, 100, 50>>,
       << 20, 30, 30, 30, 100, 90>>,
       <<100, 70, 30, 100, 80, 80>>,
       <<100, 100, 30, 80, 100, 90>>,
       << 70, 50, 30, 80, 90, 100>> >>

FallbackScores ==
    << <<100, 80, 20, 100, 100, 70>>,
       << 80, 100, 30, 70, 100, 50>>,
       << 20, 30, 100, 30, 100, 90>>,
       <<100, 70, 30, 100, 80, 80>>,
       <<100, 100, 100, 80, 100, 90>>,
       << 70, 50, 90, 80, 90, 100>> >>

\* createFallbackTileset: buildingTypes[...].height
FallbackHeights == << <<1, 3>>, <<2, 5>>, <<1, 2>>, <<0, 1>>, <<0, 0>>, <<0, 0>> >>

\* createFallbackTileset()
createFallbackTileset ==
    [tiles |-> << Tile(0, "residential", "residential", 30),
                  Tile(1, "commercial", "commercial", 20),
                  Tile(2, "industrial", "industrial", 10),
                  Tile(3, "park", "park", 15),
                  Tile(4, "road_h", "road", 10),
                  Tile(5, "road_v", "road", 10),
                  Tile(6, "empty", "empty", 5) >>,
     matrix |-> [p \in {<<FallbackTypes[a], FallbackTypes[b]>> : a, b \in 1..6}
                   |-> LET a == CHOOSE a \in 1..6 : FallbackTypes[a] = p[1]
                           b == CHOOSE b \in 1..6 : FallbackTypes[b] = p[2]
                       IN  FallbackScores[a][b]],
     buildingTypes |-> [t \in {FallbackTypes[a] : a \in 1..6} |->
                         LET a == CHOOSE a \in 1..6 : FallbackTypes[a] = t
                         IN  FallbackHeights[a]],
     loaded |-> "fallback"]

\* this.tileset.tiles.find(t => t.id === id): the first such tile's index, or 0
FindTile(ts, id) ==
    IF \E k \in DOMAIN ts.tiles : ts.tiles[k].id = id
    THEN CHOOSE k \in DOMAIN ts.tiles :
            /\ ts.tiles[k].id = id
            /\ \A j \in 1..(k - 1) : ts.tiles[j].id # id
    ELSE 0

\* this.tileset.adjacencyRules.matrix[currentType]?.[neighborType]
AdjacencyScore(ts, currentType, neighborType) ==
    IF <<currentType, neighborType>> \in DOMAIN ts.matrix
    THEN ts.matrix[<<currentType, neighborType>>]
    ELSE NoScore

\* the mutant of ScoreAccepted: `>=` for `>`
ScoreAcceptedAtThreshold(score) ==
    score # NoScore /\ score # 0 /\ score >= CompatThreshold

\* adjacencyScore && adjacencyScore > 0.3
ScoreAccepted(score) ==
    score # NoScore /\ score # 0 /\ score > CompatThreshold

(***************************************************************************)
(* The grid.                                                               *)
(***************************************************************************)
Cells(w, h) == {<<x, y>> : x \in 0..(w - 1), y \in 0..(h - 1)}

\* the cells in the order of `for y ... for x ...`
ScanOrder(w, h) == [k \in 1..(w * h) |-> <<(k - 1) % w, (k - 1) \div w>>]

\* initializeWFCGrid(gridWidth, gridHeight)
initializeWFCGrid(ts, w, h) ==
    LET allTileIds == [k \in DOMAIN ts.tiles |-> ts.tiles[k].id]
    IN  [c \in Cells(w, h) |->
            [collapsed |-> FALSE,
             possibilities |-> allTileIds,
             entropy |-> Len(allTileIds),
             tileId |-> Undefined]]

\* the mutant of LowestEntropyCandidates: every uncollapsed cell of entropy
\* > 0 is a candidate, whatever its entropy
OpenCandidates(g, w, h) ==
    SelectSeq(ScanOrder(w, h), LAMBDA c : ~g[c].collapsed /\ g[c].entropy > 0)

\* findLowestEntropyCell's candidates
LowestEntropyCandidates(g, w, h) ==
    LET open == {c \in Cells(w, h) : ~g[c].collapsed /\ g[c].entropy > 0}
        lowest == CHOOSE e \in {g[c].entropy : c \in open} :
                     \A c \in open : e <= g[c].entropy
    IN  IF open = {} THEN <<>>
        ELSE SelectSeq(ScanOrder(w, h),
                       LAMBDA c : c \in open /\ g[c].entropy = lowest)

\* the mutant of UncollapsedCells: the test of `collapsed` is left out
UncollapsedCellsUnfiltered(g, w, h) == ScanOrder(w, h)

\* findRandomUncollapedCell's array `uncollapsed`
UncollapsedCells(g, w, h) ==
    SelectSeq(ScanOrder(w, h), LAMBDA c : ~g[c].collapsed)

RECURSIVE WeightedPossibilities(_, _)
\* collapseCell's weightedPossibilities
WeightedPossibilities(ts, poss) ==
    IF poss = <<>> THEN <<>>
    ELSE LET k == FindTile(ts, Head(poss))
             \* tile ? tile.weight : 0.1, times 100
             w100 == IF k # 0 THEN ts.tiles[k].weight ELSE 10
         IN  Repeat(Head(poss), w100)
                \o WeightedPossibilities(ts, Tail(poss))

\* the mutant of collapseCell: `cell.entropy = 0` is left out
collapseCellKeepsEntropy(ts, g, c, r) ==
    IF g[c].collapsed \/ Len(g[c].possibilities) = 0 THEN g
    ELSE LET pool == WeightedPossibilities(ts, g[c].possibilities)
             chosenTileId == IF r + 1 \in DOMAIN pool THEN pool[r + 1]
                             ELSE Undefined
         IN  [g EXCEPT ![c] = [collapsed |-> TRUE,
                               possibilities |-> <<chosenTileId>>,
                               entropy |-> g[c].entropy,
                               tileId |-> chosenTileId]]

\* collapseCell(grid, x, y), whose draw returned index r of the pool
collapseCell(ts, g, c, r) ==
    IF g[c].collapsed \/ Len(g[c].possibilities) = 0 THEN g
    ELSE LET pool == WeightedPossibilities(ts, g[c].possibilities)
             chosenTileId == IF r + 1 \in DOMAIN pool THEN pool[r + 1]
                             ELSE Undefined
         IN  [g EXCEPT ![c] = [collapsed |-> TRUE,
                               possibilities |-> <<chosenTileId>>,
                               entropy |-> 0,
                               tileId |-> chosenTileId]]

\* collapseCell's pool, empty when it returns before drawing
CollapsePool(ts, g, c) ==
    IF g[c].collapsed \/ Len(g[c].possibilities) = 0 THEN <<>>
    ELSE WeightedPossibilities(ts, g[c].possibilities)

\* whether collapseCell(grid, x, y) draws from the stream
CollapseDraws(g, c) == ~g[c].collapsed /\ Len(g[c].possibilities) # 0

\* filterPossibilities(possibilities, neighborTileId, direction)
filterPossibilities(ts, possibilities, neighborTileId) ==
    IF neighborTileId = Undefined THEN possibilities
    ELSE LET n == FindTile(ts, neighborTileId)
         IN  IF n = 0 THEN possibilities
             ELSE Filter(possibilities,
                    {id \in Range(possibilities) :
                        LET k == FindTile(ts, id)
                        IN  /\ k # 0
                            /\ ScoreAccepted(AdjacencyScore(ts,
                                   ts.tiles[k].type, ts.tiles[n].type))})

\* propagateConstraints' `neighbors`, in its order: east, west, south, north
Neighbors(c) ==
    << <<c[1] + 1, c[2]>>, <<c[1] - 1, c[2]>>,
       <<c[1], c[2] + 1>>, <<c[1], c[2] - 1>> >>

\* no generate call under way
NoParams == <<>>

\* the solver's variables in a run that does not use it
\* null / undefined fields of the application (class CityGenerationTool)
NoWater == [defined |-> FALSE, cells |-> <<>>]

NoCity ==
    [defined |-> FALSE, buildings |-> <<>>, roads |-> <<>>, parks |-> <<>>,
     water |-> <<>>]

\* CityRenderer's scale (in hundredths: 100 is 1.0), offsetX and offsetY
InitialView == [scale |-> 100, offsetX |-> 0, offsetY |-> 0]

\* no button held, no finger down (previousPinchDistance 0 stands for null)
NoPointers == [isPanning |-> FALSE, active |-> 0, previousPinchDistance |-> 0]

CityUnused ==
    /\ waterCells = NoWater
    /\ coastPolygons = <<>>
    /\ currentCity = NoCity
    /\ renderRequested = FALSE
    /\ frames = 0
    /\ view = InitialView
    /\ drawn = InitialView
    /\ pointers = NoPointers
    /\ handled = 0
    /\ isGenerating = FALSE
    /\ invocations = <<>>

SolverUnused ==
    /\ tileset = NoTileset
    /\ gridWidth = 0
    /\ gridHeight = 0
    /\ entropyThreshold = 0
    /\ grid = <<>>
    /\ iterations = 0
    /\ pc = "unused"
    /\ current = <<0, 0>>
    /\ queue = <<>>
    /\ visited = {}
    /\ processed = <<>>
    /\ Math_seed = AnyStream
    /\ loadPending = FALSE
    /\ params = NoParams
    /\ generated = <<>>
    /\ published = {}
    /\ CityUnused

(***************************************************************************)
(* The terrain engine (class TopographyGenerator).  A grid is a function   *)
(* of <<row, column>>; an unset field (undefined) has defined = FALSE.     *)
(***************************************************************************)
NoGrid == [defined |-> FALSE, rows |-> 0, cols |-> 0, data |-> <<>>]

\* the value null of a flow direction and of getFlowPath's `current`
NullCell == <<>>

\* the constructor's defaults (cellSize = 10, params)
DefaultTopo ==
    [width |-> 0, height |-> 0, cellSize |-> 10,
     waterCoverage |-> 30, noiseFrequency |-> 1, seed |-> 12345,
     mode |-> "lake", riverWidth |-> 3, bayDirection |-> "top"]

TerrainUnused ==
    /\ topo = DefaultTopo
    /\ elevationGrid = NoGrid
    /\ flowDirGrid = NoGrid
    /\ path = <<>>
    /\ flowCurrent = NullCell
    /\ tpc = "unused"
    /\ baseMask = NoGrid
    /\ blobs = <<>>
    /\ loops = <<>>
    /\ returned = <<>>

(***************************************************************************)
(* hash works on IEEE doubles and 32-bit words.  A number is held exactly  *)
(* as 8 bytes, least significant first; the arguments of hash are          *)
(* non-negative integers below 2^31.                                       *)
(***************************************************************************)
Bytes(n) ==
    <<n % 256, (n \div 256) % 256, (n \div 65536) % 256,
      (n \div 16777216) % 256, 0, 0, 0, 0>>

RECURSIVE Carry(_, _, _)
\* the bytes of a number given as columns that may exceed 255
Carry(c, k, carry) ==
    IF k > 8 THEN <<>>
    ELSE <<(c[k] + carry) % 256>> \o Carry(c, k + 1, (c[k] + carry) \div 256)

RECURSIVE Column(_, _, _, _)
\* the k-th column of the product a * b
Column(a, b, k, i) ==
    IF i > k THEN 0 ELSE a[i] * b[k + 1 - i] + Column(a, b, k, i + 1)

BitLength(n) ==
    IF n = 0 THEN 0 ELSE CHOOSE l \in 1..16 : 2^(l - 1) <= n /\ n < 2^l

\* arithmetic that keeps every bit, where a double keeps 53
KeepsEveryBit(a) == a

\* the double nearest to a (53 significant bits, ties to even)
ToDouble(a) ==
    LET top == IF \A k \in 1..8 : a[k] = 0 THEN 1
               ELSE CHOOSE k \in 1..8 : a[k] # 0 /\ \A m \in (k + 1)..8 : a[m] = 0
        d == 8 * (top - 1) + BitLength(a[top]) - 53
        low == a[1] + 256 * a[2]
        rest == low % 2^d
        up == \/ rest > 2^(d - 1)
              \/ rest = 2^(d - 1) /\ (low \div 2^d) % 2 = 1
    IN  IF d <= 0 THEN a
        ELSE Carry(<<low - rest + (IF up THEN 2^d ELSE 0), 0,
                     a[3], a[4], a[5], a[6], a[7], a[8]>>, 1, 0)

\* a * b and a + b on doubles
Times(a, b) == ToDouble(Carry([k \in 1..8 |-> Column(a, b, k, 1)], 1, 0))
Plus(a, b) == ToDouble(Carry([k \in 1..8 |-> a[k] + b[k]], 1, 0))

\* >>> 0
ToUint32(a) == <<a[1], a[2], a[3], a[4], 0, 0, 0, 0>>

\* the signed reading of a 32-bit word, as >> and ^ take their operands
ToInt32(a) ==
    (IF a[4] >= 128 THEN a[4] - 256 ELSE a[4]) * 16777216
        + a[3] * 65536 + a[2] * 256 + a[1]

RECURSIVE XorByte(_, _)
XorByte(p, q) ==
    IF p = 0 THEN q
    ELSE IF q = 0 THEN p
    ELSE 2 * XorByte(p \div 2, q \div 2) + ((p + q) % 2)

\* a ^ b on 32-bit words
Xor(a, b) ==
    <<XorByte(a[1], b[1]), XorByte(a[2], b[2]), XorByte(a[3], b[3]),
      XorByte(a[4], b[4]), 0, 0, 0, 0>>

\* the denominator of hash: 0xfffffff
HashDenominator == 268435455

\* hash(x, y): the numerator t & 0xfffffff of the value returned, which is
\* that numerator / 0xfffffff
hash(x, y, seed) ==
    LET s == ToUint32(Plus(Plus(Times(Bytes(x), Bytes(374761393)),
                                Times(Bytes(y), Bytes(668265263))),
                           Times(Bytes(seed), Bytes(374761397))))
        t == ToUint32(Xor(s, Bytes(ToInt32(s) \div 8192)))
        u == ToUint32(Times(t, Bytes(1274126177)))
    IN  u[1] + 256 * u[2] + 65536 * u[3] + 16777216 * (u[4] % 16)

\* lerp(a, b, t) for t = 0 or 0.5, given as t2 = 2t: twice the value
lerp(a, b, t2) == 2 * a + (b - a) * t2

\* noise(x, y) in units of 1 / (4 * 0xfffffff).  noiseFrequency is held in
\* twentieths (0.05 is 1) and x * noiseFrequency is a multiple of 0.5, as it
\* is for the cell corners of a grid with cellSize 10.
noise(x, y, t) ==
    LET fx2 == (x * t.noiseFrequency) \div 10
        fy2 == (y * t.noiseFrequency) \div 10
        x0 == fx2 \div 2
        y0 == fy2 \div 2
        dx2 == fx2 % 2
        dy2 == fy2 % 2
        n00 == hash(x0, y0, t.seed)
        n10 == hash(x0 + 1, y0, t.seed)
        n01 == hash(x0, y0 + 1, t.seed)
        n11 == hash(x0 + 1, y0 + 1, t.seed)
        nx0 == lerp(n00, n10, dx2)
        nx1 == lerp(n01, n11, dx2)
    IN  lerp(nx0, nx1, dy2)

\* Math.ceil(a / b)
CeilDiv(a, b) == (a + b - 1) \div b

GridCells(rows, cols) == {<<j, i>> : j \in 0..(rows - 1), i \in 0..(cols - 1)}

\* generateElevationGrid()'s { rows, cols, data }
generateElevationGrid(t) ==
    LET cols == CeilDiv(t.width, t.cellSize) + 1
        rows == CeilDiv(t.height, t.cellSize) + 1
    IN  [defined |-> TRUE, rows |-> rows, cols |-> cols,
         data |-> [c \in GridCells(rows, cols) |->
                     noise(c[2] * t.cellSize, c[1] * t.cellSize, t)]]

\* computeFlowDirections' scan of the 8 neighbours: dj outer, di inner,
\* (0, 0) skipped
NeighborScan ==
    << <<-1, -1>>, <<-1, 0>>, <<-1, 1>>,
       <<0, -1>>,             <<0, 1>>,
       <<1, -1>>,  <<1, 0>>,  <<1, 1>> >>

RECURSIVE FlowScan(_, _, _, _, _)
\* the scan from its k-th neighbour on, with the running minH and next
FlowScan(eg, c, k, minH, next) ==
    IF k > Len(NeighborScan) THEN next
    ELSE LET n == <<c[1] + NeighborScan[k][1], c[2] + NeighborScan[k][2]>>
         IN  IF n \in GridCells(eg.rows, eg.cols) /\ eg.data[n] < minH
             THEN FlowScan(eg, c, k + 1, eg.data[n], n)
             ELSE FlowScan(eg, c, k + 1, minH, next)

\* the mutant of FlowDirections: `<=` for `<` in the scan, so that a
\* neighbour of equal elevation is taken
RECURSIVE FlowScanOrEqual(_, _, _, _, _)
FlowScanOrEqual(eg, c, k, minH, next) ==
    IF k > Len(NeighborScan) THEN next
    ELSE LET n == <<c[1] + NeighborScan[k][1], c[2] + NeighborScan[k][2]>>
         IN  IF n \in GridCells(eg.rows, eg.cols) /\ eg.data[n] <= minH
             THEN FlowScanOrEqual(eg, c, k + 1, eg.data[n], n)
             ELSE FlowScanOrEqual(eg, c, k + 1, minH, next)

FlowDirectionsOrEqual(eg) ==
    [defined |-> TRUE, rows |-> eg.rows, cols |-> eg.cols,
     data |-> [c \in GridCells(eg.rows, eg.cols) |->
                 FlowScanOrEqual(eg, c, 1, eg.data[c], NullCell)]]

RECURSIVE FlowScanFirstLower(_, _, _, _, _)
\* the mutant of FlowDirections: `minH = h` is left out of the scan, so that
\* the last neighbour lower than the cell is taken, not the lowest
FlowScanFirstLower(eg, c, k, minH, next) ==
    IF k > Len(NeighborScan) THEN next
    ELSE LET n == <<c[1] + NeighborScan[k][1], c[2] + NeighborScan[k][2]>>
         IN  IF n \in GridCells(eg.rows, eg.cols) /\ eg.data[n] < minH
             THEN FlowScanFirstLower(eg, c, k + 1, minH, n)
             ELSE FlowScanFirstLower(eg, c, k + 1, minH, next)

FlowDirectionsFirstLower(eg) ==
    [defined |-> TRUE, rows |-> eg.rows, cols |-> eg.cols,
     data |-> [c \in GridCells(eg.rows, eg.cols) |->
                 FlowScanFirstLower(eg, c, 1, eg.data[c], NullCell)]]

\* the grid `flow` computeFlowDirections builds from an elevation grid
FlowDirections(eg) ==
    [defined |-> TRUE, rows |-> eg.rows, cols |-> eg.cols,
     data |-> [c \in GridCells(eg.rows, eg.cols) |->
                 FlowScan(eg, c, 1, eg.data[c], NullCell)]]

\* { x: i * this.cellSize, y: j * this.cellSize }
PathPoint(c, cellSize) == [x |-> c[2] * cellSize, y |-> c[1] * cellSize]

(***************************************************************************)
(* Flow routing over an elevation grid given as such: computeFlowDirections*)
(* and then getFlowPath from any cell, as generateRiver calls them.        *)
(***************************************************************************)
FlowShapes ==
    {d \in (1..MaxFlowCells) \X (1..MaxFlowCells) : d[1] * d[2] <= MaxFlowCells}

InitFlow ==
    /\ topo = DefaultTopo
    /\ \E d \in FlowShapes :
         \E data \in [GridCells(d[1], d[2]) -> 0..MaxElevation] :
            elevationGrid = [defined |-> TRUE, rows |-> d[1], cols |-> d[2],
                             data |-> data]
    /\ flowDirGrid = NoGrid
    /\ path = <<>>
    /\ flowCurrent = NullCell
    /\ tpc = "idle"
    /\ baseMask = NoGrid
    /\ blobs = <<>>
    /\ loops = <<>>
    /\ returned = <<>>
    /\ SolverUnused

\* computeFlowDirections(), the elevation grid being set
ComputeFlowDirections ==
    /\ tpc = "idle"
    /\ elevationGrid.defined
    /\ flowDirGrid' = FlowDirections(elevationGrid)
    /\ UNCHANGED <<topo, elevationGrid, path, flowCurrent, tpc>>
    /\ UNCHANGED <<baseMask, blobs, loops, returned>>
    /\ UNCHANGED solverVars

\* getFlowPath(row, col) is called: path = [], current = [row, col]
GetFlowPath ==
    /\ tpc \in {"idle", "returned"}
    /\ flowDirGrid.defined
    /\ \E c \in GridCells(flowDirGrid.rows, flowDirGrid.cols) :
         flowCurrent' = c
    /\ path' = <<>>
    /\ tpc' = "trace"
    /\ UNCHANGED <<topo, elevationGrid, flowDirGrid>>
    /\ UNCHANGED <<baseMask, blobs, loops, returned>>
    /\ UNCHANGED solverVars

\* one pass of getFlowPath's while loop
FlowPathStep ==
    /\ tpc = "trace"
    /\ flowCurrent # NullCell
    /\ path' = Append(path, PathPoint(flowCurrent, topo.cellSize))
    /\ flowCurrent' = flowDirGrid.data[flowCurrent]
    /\ UNCHANGED <<topo, elevationGrid, flowDirGrid, tpc>>
    /\ UNCHANGED <<baseMask, blobs, loops, returned>>
    /\ UNCHANGED solverVars

\* getFlowPath returns path
FlowPathReturn ==
    /\ tpc = "trace"
    /\ flowCurrent = NullCell
    /\ tpc' = "returned"
    /\ UNCHANGED <<topo, elevationGrid, flowDirGrid, path, flowCurrent>>
    /\ UNCHANGED <<baseMask, blobs, loops, returned>>
    /\ UNCHANGED solverVars

NextFlow ==
    ComputeFlowDirections \/ GetFlowPath \/ FlowPathStep \/ FlowPathReturn

SpecFlow == InitFlow /\ [][NextFlow]_vars

(***************************************************************************)
(* Water bodies and coastlines.  A mask is a grid of booleans.             *)
(***************************************************************************)
\* the mutant of OnBoundary: `x === cols` for `x === cols - 1`
OnBoundaryLastColumnMissed(c, rows, cols) ==
    c[1] = 0 \/ c[2] = 0 \/ c[1] = rows - 1 \/ c[2] = cols

\* y === 0 || x === 0 || y === rows - 1 || x === cols - 1
OnBoundary(c, rows, cols) ==
    c[1] = 0 \/ c[2] = 0 \/ c[1] = rows - 1 \/ c[2] = cols - 1

\* the mutant of FloodNeighbors: the four diagonal neighbours as well
FloodNeighborsWithDiagonals(c) ==
    << <<c[1] - 1, c[2]>>, <<c[1] + 1, c[2]>>,
       <<c[1], c[2] - 1>>, <<c[1], c[2] + 1>>,
       <<c[1] - 1, c[2] - 1>>, <<c[1] - 1, c[2] + 1>>,
       <<c[1] + 1, c[2] - 1>>, <<c[1] + 1, c[2] + 1>> >>

\* [[y-1,x],[y+1,x],[y,x-1],[y,x+1]]
FloodNeighbors(c) ==
    << <<c[1] - 1, c[2]>>, <<c[1] + 1, c[2]>>,
       <<c[1], c[2] - 1>>, <<c[1], c[2] + 1>> >>

RECURSIVE FloodFill(_, _, _, _, _)
\* computeWaterBlobs' inner while loop: fill = <<visited, blob cells,
\* touchesBoundary>>; the stack is popped at its end
FloodFill(mask, stack, seen, cells, touches) ==
    IF stack = <<>> THEN <<seen, cells, touches>>
    ELSE LET c == stack[Len(stack)]
             rest == SubSeq(stack, 1, Len(stack) - 1)
         IN  IF c \in seen THEN FloodFill(mask, rest, seen, cells, touches)
             ELSE FloodFill(mask,
                    rest \o SelectSeq(FloodNeighbors(c),
                              LAMBDA n : /\ n \in GridCells(mask.rows, mask.cols)
                                         /\ mask.data[n]
                                         /\ n \notin seen \cup {c}),
                    seen \cup {c},
                    cells \cup {c},
                    touches \/ OnBoundary(c, mask.rows, mask.cols))

RECURSIVE WaterBlobsFrom(_, _, _, _)
\* computeWaterBlobs' scan from the k-th cell on, in row-major order
WaterBlobsFrom(mask, k, seen, found) ==
    IF k > mask.rows * mask.cols THEN found
    ELSE LET c == <<(k - 1) \div mask.cols, (k - 1) % mask.cols>>
         IN  IF ~mask.data[c] \/ c \in seen
             THEN WaterBlobsFrom(mask, k + 1, seen, found)
             ELSE LET fill == FloodFill(mask, <<c>>, seen, {}, FALSE)
                      blob == [mask |-> [defined |-> TRUE, rows |-> mask.rows,
                                         cols |-> mask.cols,
                                         data |-> [n \in GridCells(mask.rows, mask.cols)
                                                     |-> n \in fill[2]]],
                               type |-> IF fill[3] THEN "ocean" ELSE "lake"]
                  IN  WaterBlobsFrom(mask, k + 1, fill[1], Append(found, blob))

\* computeWaterBlobs(mask, rows, cols)
computeWaterBlobs(mask) == WaterBlobsFrom(mask, 1, {}, <<>>)

\* keyPt: the digits of x.toFixed(3) and y.toFixed(3); the coordinates are
\* integers, cellSize being even
keyPt(p) == <<p.x * 1000, p.y * 1000>>

\* the mutant of SquareSegments: the corners b and d change places in the
\* index (d << 2 and b for b << 2 and d)
SquareSegmentsCornersSwapped(mask, j, i, cell) ==
    LET a == IF mask.data[<<j, i>>] THEN 1 ELSE 0
        b == IF mask.data[<<j, i + 1>>] THEN 1 ELSE 0
        c == IF mask.data[<<j + 1, i + 1>>] THEN 1 ELSE 0
        d == IF mask.data[<<j + 1, i>>] THEN 1 ELSE 0
        idx == 8 * a + 4 * d + 2 * c + b
        top == [x |-> i * cell + cell \div 2, y |-> j * cell]
        right == [x |-> i * cell + cell, y |-> j * cell + cell \div 2]
        bottom == [x |-> i * cell + cell \div 2, y |-> j * cell + cell]
        left == [x |-> i * cell, y |-> j * cell + cell \div 2]
    IN  CASE idx = 1 -> << <<left, bottom>> >>
          [] idx = 2 -> << <<bottom, right>> >>
          [] idx = 3 -> << <<left, right>> >>
          [] idx = 4 -> << <<top, right>> >>
          [] idx = 5 -> << <<top, left>>, <<bottom, right>> >>
          [] idx = 6 -> << <<top, bottom>> >>
          [] idx = 7 -> << <<top, left>> >>
          [] idx = 8 -> << <<top, left>> >>
          [] idx = 9 -> << <<top, bottom>> >>
          [] idx = 10 -> << <<top, right>>, <<left, bottom>> >>
          [] idx = 11 -> << <<top, right>> >>
          [] idx = 12 -> << <<left, right>> >>
          [] idx = 13 -> << <<bottom, right>> >>
          [] idx = 14 -> << <<left, bottom>> >>
          [] OTHER -> <<>>

\* the segments marchingSquaresOnMask emits for the square whose top left
\* corner is <<j, i>>
SquareSegments(mask, j, i, cell) ==
    LET a == IF mask.data[<<j, i>>] THEN 1 ELSE 0
        b == IF mask.data[<<j, i + 1>>] THEN 1 ELSE 0
        c == IF mask.data[<<j + 1, i + 1>>] THEN 1 ELSE 0
        d == IF mask.data[<<j + 1, i>>] THEN 1 ELSE 0
        idx == 8 * a + 4 * b + 2 * c + d
        top == [x |-> i * cell + cell \div 2, y |-> j * cell]
        right == [x |-> i * cell + cell, y |-> j * cell + cell \div 2]
        bottom == [x |-> i * cell + cell \div 2, y |-> j * cell + cell]
        left == [x |-> i * cell, y |-> j * cell + cell \div 2]
    IN  CASE idx = 1 -> << <<left, bottom>> >>
          [] idx = 2 -> << <<bottom, right>> >>
          [] idx = 3 -> << <<left, right>> >>
          [] idx = 4 -> << <<top, right>> >>
          [] idx = 5 -> << <<top, left>>, <<bottom, right>> >>
          [] idx = 6 -> << <<top, bottom>> >>
          [] idx = 7 -> << <<top, left>> >>
          [] idx = 8 -> << <<top, left>> >>
          [] idx = 9 -> << <<top, bottom>> >>
          [] idx = 10 -> << <<top, right>>, <<left, bottom>> >>
          [] idx = 11 -> << <<top, right>> >>
          [] idx = 12 -> << <<left, right>> >>
          [] idx = 13 -> << <<bottom, right>> >>
          [] idx = 14 -> << <<left, bottom>> >>
          [] OTHER -> <<>>

RECURSIVE SegmentsFrom(_, _, _)
\* marchingSquaresOnMask's `segments`, from the k-th square on
SegmentsFrom(mask, k, cell) ==
    IF k > (mask.rows - 1) * (mask.cols - 1) THEN <<>>
    ELSE SquareSegments(mask, (k - 1) \div (mask.cols - 1),
                        (k - 1) % (mask.cols - 1), cell)
            \o SegmentsFrom(mask, k + 1, cell)

\* `${k0}|${k1}`
SegKey(seg) == <<keyPt(seg[1]), keyPt(seg[2])>>

RECURSIVE FollowChain(_, _, _, _)
\* marchingSquaresOnMask's `while (true)`: <<loop, used>> when it is left
FollowChain(segments, used, loop, cur) ==
    LET nextSegs == SelectSeq(segments,
                      LAMBDA sg : /\ keyPt(cur) \in {keyPt(sg[1]), keyPt(sg[2])}
                                  /\ SegKey(sg) \notin used)
    IN  IF nextSegs = <<>> THEN <<loop, used>>
        ELSE LET sg == nextSegs[1]
                 nxt == IF keyPt(sg[1]) = keyPt(cur) THEN sg[2] ELSE sg[1]
             IN  IF keyPt(nxt) = keyPt(loop[1])
                 THEN <<Append(loop, nxt), used \cup {SegKey(sg)}>>
                 ELSE FollowChain(segments, used \cup {SegKey(sg)},
                                  Append(loop, nxt), nxt)

RECURSIVE LinkFrom(_, _, _, _)
\* marchingSquaresOnMask's `for (const seg of segments)`, from the k-th on
LinkFrom(segments, k, used, found) ==
    IF k > Len(segments) THEN found
    ELSE LET seg == segments[k]
         IN  IF SegKey(seg) \in used THEN LinkFrom(segments, k + 1, used, found)
             ELSE LET chain == FollowChain(segments, used \cup {SegKey(seg)},
                                           <<seg[1], seg[2]>>, seg[2])
                  IN  LinkFrom(segments, k + 1, chain[2],
                               IF Len(chain[1]) > 2 THEN Append(found, chain[1])
                               ELSE found)

\* marchingSquaresOnMask(mask)
marchingSquaresOnMask(mask, cell) ==
    LinkFrom(SegmentsFrom(mask, 1, cell), 1, {}, <<>>)

RECURSIVE ConcatLoops(_, _, _)
\* extractCoastlines' forEach over the blobs, from the k-th on
ConcatLoops(bs, k, cell) ==
    IF k > Len(bs) THEN <<>>
    ELSE marchingSquaresOnMask(bs[k].mask, cell) \o ConcatLoops(bs, k + 1, cell)

(***************************************************************************)
(* extractCoastlines from a water mask given as such.                      *)
(***************************************************************************)
MaskShapes ==
    {d \in (1..MaxMaskCells) \X (1..MaxMaskCells) : d[1] * d[2] <= MaxMaskCells}

InitCoast ==
    /\ topo = DefaultTopo
    /\ elevationGrid = NoGrid
    /\ flowDirGrid = NoGrid
    /\ path = <<>>
    /\ flowCurrent = NullCell
    /\ tpc = "mask"
    /\ \E d \in MaskShapes :
         \E data \in [GridCells(d[1], d[2]) -> BOOLEAN] :
            baseMask = [defined |-> TRUE, rows |-> d[1], cols |-> d[2],
                        data |-> data]
    /\ blobs = <<>>
    /\ loops = <<>>
    /\ returned = <<>>
    /\ SolverUnused

\* const blobs = this.computeWaterBlobs(baseMask, rows, cols)
ComputeWaterBlobs ==
    /\ tpc = "mask"
    /\ blobs' = computeWaterBlobs(baseMask)
    /\ tpc' = "blobs"
    /\ UNCHANGED <<topo, elevationGrid, flowDirGrid, path, flowCurrent,
                   baseMask, loops, returned>>
    /\ UNCHANGED solverVars

\* blobs.forEach(blob => loops.push(...marchingSquaresOnMask(blob.mask)))
ExtractLoops ==
    /\ tpc = "blobs"
    /\ loops' = ConcatLoops(blobs, 1, topo.cellSize)
    /\ tpc' = "loops"
    /\ UNCHANGED <<topo, elevationGrid, flowDirGrid, path, flowCurrent,
                   baseMask, blobs, returned>>
    /\ UNCHANGED solverVars

NextCoast == ComputeWaterBlobs \/ ExtractLoops

SpecCoast == InitCoast /\ [][NextCoast]_vars

(***************************************************************************)
(* The methods of one terrain configuration called in any order, on the    *)
(* same instance or on a new one.                                          *)
(***************************************************************************)
RECURSIVE FlowPathFrom(_, _, _)
\* getFlowPath's loop from `current` on
FlowPathFrom(fd, cur, cellSize) ==
    IF cur = NullCell THEN <<>>
    ELSE <<PathPoint(cur, cellSize)>> \o FlowPathFrom(fd, fd.data[cur], cellSize)

\* v < threshold for an elevation v in units of 1 / (4 * 0xfffffff) and
\* waterCoverage in hundredths: 100 v < 4 * 0xfffffff * waterCoverage, with
\* the quotient and remainder of 4 * 0xfffffff by 100 to stay within 32 bits
BelowThreshold(v, waterCoverage) ==
    LET q == (4 * HashDenominator) \div 100
        r == (4 * HashDenominator) % 100
    IN  v < waterCoverage * q + (waterCoverage * r + 99) \div 100

\* data.map(row => row.map(v => v < threshold))
WaterMask(eg, waterCoverage) ==
    [defined |-> TRUE, rows |-> eg.rows, cols |-> eg.cols,
     data |-> [c \in GridCells(eg.rows, eg.cols) |->
                 BelowThreshold(eg.data[c], waterCoverage)]]

\* what a call returned, or that it threw
Returns(v) == [threw |-> FALSE, value |-> v]
Throws == [threw |-> TRUE, value |-> <<>>]

TopoExtents == {10 * k : k \in 1..MaxTopoSpan}
TopoSeeds == {12345, 42}
TopoCoverages == {30, 50}

\* the calls made: hash as generateRiver calls it, getFlowPath from a cell
\* of the top edge
TopoCalls ==
    {<<"hash", 0, 1>>, <<"generateElevationGrid", 0, 0>>,
     <<"computeFlowDirections", 0, 0>>, <<"extractCoastlines", 0, 0>>,
     <<"getFlowPath", 0, 0>>, <<"getFlowPath", 0, 1>>}

\* main.js: new TopographyGenerator(canvas.width, canvas.height, 10, {...})
InitTopo ==
    /\ \E w \in TopoExtents, h \in TopoExtents, seed \in TopoSeeds,
          coverage \in TopoCoverages :
         topo = [DefaultTopo EXCEPT !.width = w, !.height = h,
                                    !.seed = seed, !.waterCoverage = coverage]
    /\ elevationGrid = NoGrid
    /\ flowDirGrid = NoGrid
    /\ path = <<>>
    /\ flowCurrent = NullCell
    /\ tpc = "idle"
    /\ baseMask = NoGrid
    /\ blobs = <<>>
    /\ loops = <<>>
    /\ returned = [c \in TopoCalls |-> {}]
    /\ SolverUnused

Record(call, result) ==
    returned' = [returned EXCEPT ![call] = @ \cup {result}]

\* a new instance for the same width, height, cellSize and params
NewInstance ==
    /\ elevationGrid' = NoGrid
    /\ flowDirGrid' = NoGrid
    /\ UNCHANGED <<topo, path, flowCurrent, tpc, baseMask, blobs, loops, returned>>
    /\ UNCHANGED solverVars

CallHash ==
    /\ \E c \in TopoCalls :
         /\ c[1] = "hash"
         /\ Record(c, Returns(hash(c[2], c[3], topo.seed)))
    /\ UNCHANGED <<topo, elevationGrid, flowDirGrid, path, flowCurrent, tpc,
                   baseMask, blobs, loops>>
    /\ UNCHANGED solverVars

CallGenerateElevationGrid ==
    /\ elevationGrid' = generateElevationGrid(topo)
    /\ Record(<<"generateElevationGrid", 0, 0>>, Returns(elevationGrid'))
    /\ UNCHANGED <<topo, flowDirGrid, path, flowCurrent, tpc,
                   baseMask, blobs, loops>>
    /\ UNCHANGED solverVars

\* if (!this.elevationGrid) this.generateElevationGrid()
EnsureElevationGrid ==
    elevationGrid' = IF elevationGrid.defined THEN elevationGrid
                     ELSE generateElevationGrid(topo)

CallComputeFlowDirections ==
    /\ EnsureElevationGrid
    /\ flowDirGrid' = FlowDirections(elevationGrid')
    /\ Record(<<"computeFlowDirections", 0, 0>>, Returns(flowDirGrid'))
    /\ UNCHANGED <<topo, path, flowCurrent, tpc, baseMask, blobs, loops>>
    /\ UNCHANGED solverVars

\* getFlowPath reads this.flowDirGrid[j] whether or not the field is set
CallGetFlowPath ==
    /\ \E c \in TopoCalls :
         /\ c[1] = "getFlowPath"
         /\ Record(c, IF flowDirGrid.defined
                      THEN Returns(FlowPathFrom(flowDirGrid, <<c[2], c[3]>>,
                                                topo.cellSize))
                      ELSE Throws)
    /\ UNCHANGED <<topo, elevationGrid, flowDirGrid, path, flowCurrent, tpc,
                   baseMask, blobs, loops>>
    /\ UNCHANGED solverVars

CallExtractCoastlines ==
    /\ EnsureElevationGrid
    /\ Record(<<"extractCoastlines", 0, 0>>,
              Returns(ConcatLoops(
                  computeWaterBlobs(WaterMask(elevationGrid', topo.waterCoverage)),
                  1, topo.cellSize)))
    /\ UNCHANGED <<topo, flowDirGrid, path, flowCurrent, tpc,
                   baseMask, blobs, loops>>
    /\ UNCHANGED solverVars

NextTopo ==
    \/ NewInstance
    \/ CallHash
    \/ CallGenerateElevationGrid
    \/ CallComputeFlowDirections
    \/ CallGetFlowPath
    \/ CallExtractCoastlines

SpecTopo == InitTopo /\ [][NextTopo]_vars

(***************************************************************************)
(* Construction with any extents, positive or not, and then               *)
(* generateElevationGrid.  The constructor stores what it is given.        *)
(***************************************************************************)
ConfigExtents == {10 * k : k \in (0 - MaxTopoSpan)..MaxTopoSpan}

InitConfig ==
    /\ \E w \in ConfigExtents, h \in ConfigExtents, seed \in TopoSeeds,
          coverage \in TopoCoverages :
         topo = [DefaultTopo EXCEPT !.width = w, !.height = h,
                                    !.seed = seed, !.waterCoverage = coverage]
    /\ elevationGrid = NoGrid
    /\ flowDirGrid = NoGrid
    /\ path = <<>>
    /\ flowCurrent = NullCell
    /\ tpc = "idle"
    /\ baseMask = NoGrid
    /\ blobs = <<>>
    /\ loops = <<>>
    /\ returned = [c \in {<<"generateElevationGrid", 0, 0>>} |-> {}]
    /\ SolverUnused

NextConfig == NewInstance \/ CallGenerateElevationGrid

SpecConfig == InitConfig /\ [][NextConfig]_vars

(***************************************************************************)
(* The catalogs of the model: every two-tile catalog over two categories   *)
(* with scores absent, 0.3 or 1.0 and weights 0 or 0.1, and the catalogs   *)
(* of one category.                                                        *)
(***************************************************************************)
TwoTypes == {"residential", "industrial"}

TwoTypeCatalogs ==
    {[tiles |-> << Tile(0, "residential", "residential", w[1]),
                   Tile(1, "industrial", "industrial", w[2]) >>,
      matrix |-> m,
      buildingTypes |-> [t \in TwoTypes |->
                           IF t = "residential" THEN <<1, 3>> ELSE <<1, 2>>],
      loaded |-> "json"] :
        w \in {<<10, 10>>, <<0, 10>>, <<0, 0>>},
        m \in [TwoTypes \X TwoTypes -> {NoScore, 30, 100}]}

OneTypeCatalogs ==
    {[tiles |-> << Tile(0, "road_h", "road", 10), Tile(1, "road_v", "road", w) >>,
      matrix |-> [p \in {<<"road", "road">>} |-> s],
      buildingTypes |-> [t \in {"road"} |-> <<0, 0>>], loaded |-> "json"] :
        w \in {0, 10}, s \in {30, 100}}

ModelCatalogs == TwoTypeCatalogs \cup OneTypeCatalogs

GridSizes ==
    {d \in (1..MaxCells) \X (1..MaxCells) : d[1] * d[2] <= MaxCells}

(***************************************************************************)
(* collapseWaveFunction, from the grid initializeWFCGrid built.            *)
(***************************************************************************)
maxIterations == gridWidth * gridHeight * 2

InitSolver ==
    /\ tileset \in ModelCatalogs
    /\ \E d \in GridSizes : gridWidth = d[1] /\ gridHeight = d[2]
    /\ entropyThreshold \in {1, 3}
    /\ grid = initializeWFCGrid(tileset, gridWidth, gridHeight)
    /\ iterations = 0
    /\ pc = "loop"
    /\ current = <<0, 0>>
    /\ queue = <<>>
    /\ visited = {}
    /\ processed = <<>>
    /\ Math_seed = AnyStream
    /\ loadPending = FALSE
    /\ params = NoParams
    /\ generated = <<>>
    /\ published = {}
    /\ CityUnused
    /\ TerrainUnused

\* the mutant of LoopExits for the budget: `<=` for `<`
LoopExitsOneLate ==
    IF iterations <= maxIterations
    THEN LowestEntropyCandidates(grid, gridWidth, gridHeight) = <<>>
    ELSE TRUE

\* the mutant of LoopExits for contradictions: the loop is also left when an
\* uncollapsed cell has entropy 0
LoopExitsOnContradiction ==
    IF iterations < maxIterations
    THEN \/ LowestEntropyCandidates(grid, gridWidth, gridHeight) = <<>>
         \/ \E c \in DOMAIN grid : ~grid[c].collapsed /\ grid[c].entropy = 0
    ELSE TRUE

\* whether the while loop is left: the budget is spent, or
\* findLowestEntropyCell returned null
LoopExits ==
    IF iterations < maxIterations
    THEN LowestEntropyCandidates(grid, gridWidth, gridHeight) = <<>>
    ELSE TRUE

\* the indexes collapseCell's draw can return into its pool: under an unknown
\* stream position any index, of which one per distinct tile is kept (the
\* first), an index into an empty pool reading `undefined`
PoolDraw(s, k, pool) ==
    IF s = AnyStream
    THEN IF pool = <<>> THEN {0}
         ELSE {i - 1 : i \in {j \in DOMAIN pool :
                                 \A l \in 1..(j - 1) : pool[l] # pool[j]}}
    ELSE {RandIndex(LcgAfter(s, k), Len(pool))}

\* one pass of the loop body up to the call of propagateConstraints:
\* findLowestEntropyCell, the threshold test, findRandomUncollapedCell and
\* collapseCell
Iterate ==
    /\ pc = "loop"
    /\ ~LoopExits
    /\ LET cands == LowestEntropyCandidates(grid, gridWidth, gridHeight)
           unc == UncollapsedCells(grid, gridWidth, gridHeight)
       IN  /\ cands # <<>>
           /\ \E i1 \in Draw(Math_seed, 1, Len(cands)) :
                LET low == cands[i1 + 1]
                    byEntropy == grid[low].entropy <= entropyThreshold
                    d == IF byEntropy THEN 1 ELSE 2
                IN  \E i2 \in IF byEntropy THEN {0}
                               ELSE Draw(Math_seed, 2, Len(unc)) :
                      LET target == IF byEntropy THEN low ELSE unc[i2 + 1]
                      IN  \E r \in PoolDraw(Math_seed, d + 1,
                                     CollapsePool(tileset, grid, target)) :
                            /\ grid' = collapseCell(tileset, grid, target, r)
                            /\ current' = target
                            /\ queue' = <<target>>
                            /\ Math_seed' = Advance(Math_seed, d +
                                 (IF CollapseDraws(grid, target) THEN 1 ELSE 0))
    /\ visited' = {}
    /\ processed' = <<>>
    /\ pc' = "propagate"
    /\ UNCHANGED <<tileset, gridWidth, gridHeight, entropyThreshold, iterations>>
    /\ UNCHANGED <<loadPending, params, generated, published, cityVars>>
    /\ UNCHANGED terrainVars

\* whether processing cell c changes its neighbour n
Shrinks(g, w, h, ts, c, n) ==
    /\ n \in Cells(w, h)
    /\ ~g[n].collapsed
    /\ Len(filterPossibilities(ts, g[n].possibilities, g[c].tileId))
          # Len(g[n].possibilities)

\* the body of propagateConstraints' while loop for one dequeued cell
PropagateStep ==
    /\ pc = "propagate"
    /\ queue # <<>>
    /\ LET c == Head(queue)
       IN  IF c \in visited
           THEN /\ queue' = Tail(queue)
                /\ UNCHANGED <<grid, visited, processed>>
           ELSE /\ visited' = visited \cup {c}
                /\ processed' = Append(processed, c)
                /\ grid' = [n \in DOMAIN grid |->
                     IF n \in Range(Neighbors(c))
                        /\ Shrinks(grid, gridWidth, gridHeight, tileset, c, n)
                     THEN LET valid == filterPossibilities(tileset,
                                          grid[n].possibilities, grid[c].tileId)
                          IN  [grid[n] EXCEPT !.possibilities = valid,
                                              !.entropy = Len(valid)]
                     ELSE grid[n]]
                /\ queue' = Tail(queue) \o SelectSeq(Neighbors(c),
                     LAMBDA n : Shrinks(grid, gridWidth, gridHeight, tileset, c, n))
    /\ UNCHANGED <<tileset, gridWidth, gridHeight, entropyThreshold, iterations,
                   pc, current, Math_seed>>
    /\ UNCHANGED <<loadPending, params, generated, published, cityVars>>
    /\ UNCHANGED terrainVars

\* propagateConstraints returns; iterations++
PropagateReturn ==
    /\ pc = "propagate"
    /\ queue = <<>>
    /\ iterations' = iterations + 1
    /\ pc' = "loop"
    /\ UNCHANGED <<tileset, gridWidth, gridHeight, entropyThreshold, grid,
                   current, queue, visited, processed, Math_seed>>
    /\ UNCHANGED <<loadPending, params, generated, published, cityVars>>
    /\ UNCHANGED terrainVars

\* collapseWaveFunction returns
Return ==
    /\ pc = "loop"
    /\ LoopExits
    /\ pc' = "done"
    /\ UNCHANGED <<tileset, gridWidth, gridHeight, entropyThreshold, grid,
                   iterations, current, queue, visited, processed, Math_seed>>
    /\ UNCHANGED <<loadPending, params, generated, published, cityVars>>
    /\ UNCHANGED terrainVars

NextSolver == Iterate \/ PropagateStep \/ PropagateReturn \/ Return

SpecSolver == InitSolver /\ [][NextSolver]_vars

(***************************************************************************)
(* collapseWaveFunction with the built-in fallback catalog, for every grid *)
(* of up to MaxFallbackCells cells, a threshold below, at and above the    *)
(* entropies that occur, and every draw.                                   *)
(***************************************************************************)
FallbackThresholds == {1, 3, 7}

InitFallback ==
    /\ tileset = createFallbackTileset
    /\ \E d \in (1..MaxFallbackCells) \X (1..MaxFallbackCells) :
         /\ d[1] * d[2] <= MaxFallbackCells
         /\ gridWidth = d[1] /\ gridHeight = d[2]
    /\ entropyThreshold \in FallbackThresholds
    /\ grid = initializeWFCGrid(tileset, gridWidth, gridHeight)
    /\ iterations = 0
    /\ pc = "loop"
    /\ current = <<0, 0>>
    /\ queue = <<>>
    /\ visited = {}
    /\ processed = <<>>
    /\ Math_seed = AnyStream
    /\ loadPending = FALSE
    /\ params = NoParams
    /\ generated = <<>>
    /\ published = {}
    /\ CityUnused
    /\ TerrainUnused

SpecFallback == InitFallback /\ [][NextSolver]_vars

(***************************************************************************)
(* generate called again and again on one WFCAlgorithm while the           *)
(* constructor's loadTileset() settles at any time between two calls.      *)
(* generate has no await in its body, so nothing runs in the middle of it. *)
(***************************************************************************)
\* what data/wfc-tileset.json can hold: the fallback's catalog or another
LoadableCatalogs ==
    OneTypeCatalogs \cup {[createFallbackTileset EXCEPT !.loaded = "json"]}

GenSeeds == {12345, 42}

\* tileSize = 10, entropyThreshold = 3, scale = 1 are generate's defaults
GenParams ==
    {[tileSize |-> 10, entropyThreshold |-> 3, canvasWidth |-> 10 * d[1],
      canvasHeight |-> 10 * d[2], scale |-> 1, seed |-> seed] :
        d \in {e \in (1..MaxGenCells) \X (1..MaxGenCells) :
                  e[1] * e[2] = MaxGenCells},
        seed \in GenSeeds}

\* where other users of the stream can have left Math._seed
StrayStreams == {LcgAfter(SeedRandom(seed), 1) : seed \in GenSeeds}

\* getBuildingHeight(buildingType) at stream position s: <<floors, Math._seed>>
getBuildingHeight(ts, buildingType, s) ==
    IF buildingType \notin DOMAIN ts.buildingTypes THEN <<1, s>>
    ELSE LET min == ts.buildingTypes[buildingType][1]
             max == ts.buildingTypes[buildingType][2]
         IN  <<RandIndex(LcgNext(s), max - min + 1) + min, LcgNext(s)>>

\* tile.name.includes('_h')
IncludesH(name) == name \in {"road_h"}

RECURSIVE StructuresFromTransposed(_, _, _, _, _, _, _)
\* the mutant of StructuresFrom: worldX taken from the row and worldY from
\* the column
StructuresFromTransposed(ts, g, order, k, tileSize, s, out) ==
    IF k > Len(order) THEN <<out, s>>
    ELSE LET c == order[k]
             cell == g[c]
             found == FindTile(ts, cell.tileId)
             tile == ts.tiles[found]
             box == [x |-> c[2] * tileSize, y |-> c[1] * tileSize,
                     width |-> tileSize, height |-> tileSize]
         IN  IF ~cell.collapsed \/ found = 0
             THEN StructuresFromTransposed(ts, g, order, k + 1, tileSize, s, out)
             ELSE IF tile.type \in {"residential", "commercial", "industrial"}
             THEN LET floors == getBuildingHeight(ts, tile.type, s)
                  IN  StructuresFromTransposed(ts, g, order, k + 1, tileSize, floors[2],
                        [out EXCEPT !.buildings = Append(@,
                            [box |-> box, type |-> tile.type,
                             floors |-> floors[1], wfcTile |-> tile.id])])
             ELSE IF tile.type = "road"
             THEN StructuresFromTransposed(ts, g, order, k + 1, tileSize, s,
                    [out EXCEPT !.roads = Append(@,
                        [box |-> box,
                         direction |-> IF IncludesH(tile.name) THEN "horizontal"
                                       ELSE "vertical"])])
             ELSE IF tile.type = "park"
             THEN StructuresFromTransposed(ts, g, order, k + 1, tileSize, s,
                    [out EXCEPT !.parks = Append(@, [box |-> box])])
             ELSE StructuresFromTransposed(ts, g, order, k + 1, tileSize, s, out)

RECURSIVE StructuresFrom(_, _, _, _, _, _, _)
\* wfcToStructures' scan from the k-th cell on: <<structures, Math._seed>>
StructuresFrom(ts, g, order, k, tileSize, s, out) ==
    IF k > Len(order) THEN <<out, s>>
    ELSE LET c == order[k]
             cell == g[c]
             found == FindTile(ts, cell.tileId)
             tile == ts.tiles[found]
             box == [x |-> c[1] * tileSize, y |-> c[2] * tileSize,
                     width |-> tileSize, height |-> tileSize]
         IN  IF ~cell.collapsed \/ found = 0
             THEN StructuresFrom(ts, g, order, k + 1, tileSize, s, out)
             ELSE IF tile.type \in {"residential", "commercial", "industrial"}
             THEN LET floors == getBuildingHeight(ts, tile.type, s)
                  IN  StructuresFrom(ts, g, order, k + 1, tileSize, floors[2],
                        [out EXCEPT !.buildings = Append(@,
                            [box |-> box, type |-> tile.type,
                             floors |-> floors[1], wfcTile |-> tile.id])])
             ELSE IF tile.type = "road"
             THEN StructuresFrom(ts, g, order, k + 1, tileSize, s,
                    [out EXCEPT !.roads = Append(@,
                        [box |-> box,
                         direction |-> IF IncludesH(tile.name) THEN "horizontal"
                                       ELSE "vertical"])])
             ELSE IF tile.type = "park"
             THEN StructuresFrom(ts, g, order, k + 1, tileSize, s,
                    [out EXCEPT !.parks = Append(@, [box |-> box])])
             ELSE StructuresFrom(ts, g, order, k + 1, tileSize, s, out)

\* wfcToStructures(grid, gridWidth, gridHeight, tileSize)
wfcToStructures(ts, g, w, h, tileSize, s) ==
    StructuresFrom(ts, g, ScanOrder(w, h), 1, tileSize, s,
                   [buildings |-> <<>>, roads |-> <<>>, parks |-> <<>>,
                    water |-> <<>>])

InitGen ==
    /\ tileset = NoTileset
    /\ loadPending = TRUE
    /\ gridWidth = 0
    /\ gridHeight = 0
    /\ entropyThreshold = 0
    /\ grid = <<>>
    /\ iterations = 0
    /\ pc = "idle"
    /\ current = <<0, 0>>
    /\ queue = <<>>
    /\ visited = {}
    /\ processed = <<>>
    /\ Math_seed \in StrayStreams
    /\ params = NoParams
    /\ generated = [p \in GenParams |-> {}]
    /\ published = {}
    /\ CityUnused
    /\ TerrainUnused

\* loadTileset() settles: the response is parsed, or the catch block runs
LoadTilesetSettles ==
    /\ pc = "idle"
    /\ loadPending
    /\ loadPending' = FALSE
    /\ tileset' \in LoadableCatalogs \cup {createFallbackTileset}
    /\ UNCHANGED <<gridWidth, gridHeight, entropyThreshold, grid, iterations, pc,
                   current, queue, visited, processed, Math_seed, params,
                   generated, published, cityVars>>
    /\ UNCHANGED terrainVars

\* another generator seeds the stream and draws from it
OtherGenerator ==
    /\ pc = "idle"
    /\ Math_seed' \in StrayStreams
    /\ UNCHANGED <<tileset, gridWidth, gridHeight, entropyThreshold, grid,
                   iterations, pc, current, queue, visited, processed,
                   loadPending, params, generated, published, cityVars>>
    /\ UNCHANGED terrainVars

\* the mutant of Generate: `if (!this.tileset)` and its assignment left out
GenerateWithoutFallback ==
    /\ pc = "idle"
    /\ params' \in GenParams
    /\ Math_seed' = SeedRandom(params'.seed)
    /\ gridWidth' = params'.canvasWidth \div (params'.tileSize * params'.scale)
    /\ gridHeight' = params'.canvasHeight \div (params'.tileSize * params'.scale)
    /\ entropyThreshold' = params'.entropyThreshold
    /\ grid' = initializeWFCGrid(tileset, gridWidth', gridHeight')
    /\ iterations' = 0
    /\ pc' = "loop"
    /\ UNCHANGED <<tileset, current, queue, visited, processed, loadPending,
                   generated, published, cityVars>>
    /\ UNCHANGED terrainVars

\* generate(params) up to the call of collapseWaveFunction
Generate ==
    /\ pc = "idle"
    /\ params' \in GenParams
    /\ Math_seed' = SeedRandom(params'.seed)
    /\ tileset' = IF tileset = NoTileset THEN createFallbackTileset ELSE tileset
    /\ gridWidth' = params'.canvasWidth \div (params'.tileSize * params'.scale)
    /\ gridHeight' = params'.canvasHeight \div (params'.tileSize * params'.scale)
    /\ entropyThreshold' = params'.entropyThreshold
    /\ grid' = initializeWFCGrid(tileset', gridWidth', gridHeight')
    /\ iterations' = 0
    /\ pc' = "loop"
    /\ UNCHANGED <<current, queue, visited, processed, loadPending, generated,
                   published, cityVars>>
    /\ UNCHANGED terrainVars

\* return this.wfcToStructures(...); the call's locals are gone
GenerateReturns ==
    /\ pc = "done"
    /\ params # NoParams
    /\ LET result == wfcToStructures(tileset, grid, gridWidth, gridHeight,
                                     params.tileSize * params.scale, Math_seed)
       IN  /\ generated' = [generated EXCEPT ![params] = @ \cup {result[1]}]
           /\ Math_seed' = result[2]
    /\ params' = NoParams
    /\ gridWidth' = 0
    /\ gridHeight' = 0
    /\ entropyThreshold' = 0
    /\ grid' = <<>>
    /\ iterations' = 0
    /\ current' = <<0, 0>>
    /\ pc' = "idle"
    /\ UNCHANGED <<tileset, queue, visited, processed, loadPending, published,
                   cityVars>>
    /\ UNCHANGED terrainVars

NextGen ==
    \/ LoadTilesetSettles
    \/ OtherGenerator
    \/ Generate
    \/ Iterate
    \/ PropagateStep
    \/ PropagateReturn
    \/ Return
    \/ GenerateReturns

SpecGen == InitGen /\ [][NextGen]_vars

(***************************************************************************)
(* One generate call per seed, from initializeWFCGrid to wfcToStructures,  *)
(* with the fallback catalog and with a catalog that forbids every pair.   *)
(***************************************************************************)
EmitCatalogs ==
    {createFallbackTileset}
        \cup {c \in TwoTypeCatalogs :
                 /\ \A k \in DOMAIN c.tiles : c.tiles[k].weight = 10
                 /\ \A pr \in DOMAIN c.matrix : c.matrix[pr] = NoScore}

EmitParams ==
    {[tileSize |-> 10, entropyThreshold |-> 3, canvasWidth |-> 10 * d[1],
      canvasHeight |-> 10 * d[2], scale |-> 1, seed |-> seed] :
        d \in {e \in (1..MaxGenCells) \X (1..MaxGenCells) :
                  e[1] * e[2] <= MaxGenCells},
        seed \in 1..MaxEmitSeed}

\* generate(params) has been called and has built its grid
InitEmit ==
    /\ tileset \in EmitCatalogs
    /\ loadPending = FALSE
    /\ params \in EmitParams
    /\ Math_seed = SeedRandom(params.seed)
    /\ gridWidth = params.canvasWidth \div (params.tileSize * params.scale)
    /\ gridHeight = params.canvasHeight \div (params.tileSize * params.scale)
    /\ entropyThreshold = params.entropyThreshold
    /\ grid = initializeWFCGrid(tileset, gridWidth, gridHeight)
    /\ iterations = 0
    /\ pc = "loop"
    /\ current = <<0, 0>>
    /\ queue = <<>>
    /\ visited = {}
    /\ processed = <<>>
    /\ generated = [p \in {params} |-> {}]
    /\ published = {}
    /\ CityUnused
    /\ TerrainUnused

NextEmit ==
    Iterate \/ PropagateStep \/ PropagateReturn \/ Return \/ GenerateReturns

SpecEmit == InitEmit /\ [][NextEmit]_vars

(***************************************************************************)
(* generate() in lake and bay mode beside extractCoastlines, as            *)
(* generateTopography (main.js) calls them on one instance.                *)
(***************************************************************************)
Max(a, b) == IF a >= b THEN a ELSE b
Min(a, b) == IF a <= b THEN a ELSE b

\* getDistanceFromBayEdge(x, y, direction)
getDistanceFromBayEdge(t, x, y, direction) ==
    CASE direction = "top" -> y
      [] direction = "bottom" -> t.height - y
      [] direction = "left" -> x
      [] direction = "right" -> t.width - x
      [] OTHER -> Min(Min(x, y), Min(t.width - x, t.height - y))

\* v < num / den for an elevation v in units of 1 / (4 * 0xfffffff), with
\* the quotient and remainder of 4 * 0xfffffff by den to stay within 32 bits
BelowFraction(v, num, den) ==
    LET q == (4 * HashDenominator) \div den
        r == (4 * HashDenominator) % den
    IN  v < num * q + (num * r + den - 1) \div den

\* generateBay's test data[j][i] < waterCoverage + (1 - edgeDist /
\* maxDistance) * 0.4, in hundredths over maxDistance
BelowBayThreshold(t, v, x, y) ==
    LET maxDistance == Max(t.width, t.height)
        edgeDist == getDistanceFromBayEdge(t, x, y, t.bayDirection)
    IN  BelowFraction(v, t.waterCoverage * maxDistance
                             + 40 * (maxDistance - edgeDist),
                      100 * maxDistance)

\* the cells of a rows x cols grid as `for j / for i` visits them
RowMajor(rows, cols) ==
    [k \in 1..(rows * cols) |-> <<(k - 1) \div cols, (k - 1) % cols>>]

WaterCell(t, c) ==
    [x |-> c[2] * t.cellSize, y |-> c[1] * t.cellSize,
     width |-> t.cellSize, height |-> t.cellSize]

\* the waterCells a scan pushes: one for each cell it kept, in scan order
WaterCellsAt(t, kept) ==
    [k \in 1..Len(kept) |-> WaterCell(t, kept[k])]

\* generateLake's waterCells from the grid generateElevationGrid returned
generateLake(t, eg) ==
    WaterCellsAt(t, SelectSeq(RowMajor(eg.rows, eg.cols),
                              LAMBDA c : BelowThreshold(eg.data[c],
                                                        t.waterCoverage)))

\* generateBay's waterCells from the grid generateElevationGrid returned
generateBay(t, eg) ==
    WaterCellsAt(t, SelectSeq(RowMajor(eg.rows, eg.cols),
                              LAMBDA c : BelowBayThreshold(t, eg.data[c],
                                                           c[2] * t.cellSize,
                                                           c[1] * t.cellSize)))

BayDirections == {"top", "bottom", "left", "right", "center"}

InitBay ==
    /\ \E w \in TopoExtents, h \in TopoExtents, seed \in TopoSeeds,
          coverage \in TopoCoverages, mode \in {"lake", "bay"},
          direction \in BayDirections :
         topo = [DefaultTopo EXCEPT !.width = w, !.height = h, !.seed = seed,
                                    !.waterCoverage = coverage, !.mode = mode,
                                    !.bayDirection = direction]
    /\ elevationGrid = NoGrid
    /\ flowDirGrid = NoGrid
    /\ path = <<>>
    /\ flowCurrent = NullCell
    /\ tpc = "idle"
    /\ baseMask = NoGrid
    /\ blobs = <<>>
    /\ loops = <<>>
    /\ returned = [c \in {<<"generate", 0, 0>>} |-> {}]
    /\ SolverUnused

\* generate() for mode 'bay' and for the default, generateLake
CallGenerate ==
    /\ topo.mode \in {"lake", "bay"}
    /\ elevationGrid' = generateElevationGrid(topo)
    /\ Record(<<"generate", 0, 0>>,
              Returns(IF topo.mode = "bay" THEN generateBay(topo, elevationGrid')
                      ELSE generateLake(topo, elevationGrid')))
    /\ UNCHANGED <<topo, flowDirGrid, path, flowCurrent, tpc, baseMask, blobs,
                   loops>>
    /\ UNCHANGED solverVars

\* extractCoastlines(), its locals kept
ExtractCoastlines ==
    /\ EnsureElevationGrid
    /\ baseMask' = WaterMask(elevationGrid', topo.waterCoverage)
    /\ blobs' = computeWaterBlobs(baseMask')
    /\ loops' = ConcatLoops(blobs', 1, topo.cellSize)
    /\ UNCHANGED <<topo, flowDirGrid, path, flowCurrent, tpc, returned>>
    /\ UNCHANGED solverVars

NextBay == CallGenerate \/ ExtractCoastlines

SpecBay == InitBay /\ [][NextBay]_vars

(***************************************************************************)
(* One instance whose seed, noiseFrequency and cellSize are assigned       *)
(* between calls.  tpc names the call made last.                           *)
(***************************************************************************)
CacheSeeds == {12345, 42}
CacheFrequencies == {1, 2}
CacheCellSizes == {10, 20}

InitCache ==
    /\ \E seed \in CacheSeeds, frequency \in CacheFrequencies,
          cellSize \in CacheCellSizes :
         topo = [DefaultTopo EXCEPT !.width = 20, !.height = 20,
                                    !.seed = seed, !.cellSize = cellSize,
                                    !.noiseFrequency = frequency]
    /\ elevationGrid = NoGrid
    /\ flowDirGrid = NoGrid
    /\ path = <<>>
    /\ flowCurrent = NullCell
    /\ tpc = "new"
    /\ baseMask = NoGrid
    /\ blobs = <<>>
    /\ loops = <<>>
    /\ returned = <<>>
    /\ SolverUnused

\* gen.params.seed = ..., gen.params.noiseFrequency = ..., gen.cellSize = ...
AssignParameter ==
    /\ \/ \E seed \in CacheSeeds \ {topo.seed} :
            topo' = [topo EXCEPT !.seed = seed]
       \/ \E frequency \in CacheFrequencies \ {topo.noiseFrequency} :
            topo' = [topo EXCEPT !.noiseFrequency = frequency]
       \/ \E cellSize \in CacheCellSizes \ {topo.cellSize} :
            topo' = [topo EXCEPT !.cellSize = cellSize]
    /\ tpc' = "assigned"
    /\ UNCHANGED <<elevationGrid, flowDirGrid, path, flowCurrent, baseMask,
                   blobs, loops, returned>>
    /\ UNCHANGED solverVars

\* generate() in the default mode: generateLake calls generateElevationGrid
GenerateAgain ==
    /\ elevationGrid' = generateElevationGrid(topo)
    /\ tpc' = "generate"
    /\ UNCHANGED <<topo, flowDirGrid, path, flowCurrent, baseMask, blobs,
                   loops, returned>>
    /\ UNCHANGED solverVars

\* computeFlowDirections()
FlowRouting ==
    /\ EnsureElevationGrid
    /\ flowDirGrid' = FlowDirections(elevationGrid')
    /\ tpc' = "computeFlowDirections"
    /\ UNCHANGED <<topo, path, flowCurrent, baseMask, blobs, loops, returned>>
    /\ UNCHANGED solverVars

\* extractCoastlines()
CoastlineExtraction ==
    /\ EnsureElevationGrid
    /\ baseMask' = WaterMask(elevationGrid', topo.waterCoverage)
    /\ blobs' = computeWaterBlobs(baseMask')
    /\ loops' = ConcatLoops(blobs', 1, topo.cellSize)
    /\ tpc' = "extractCoastlines"
    /\ UNCHANGED <<topo, flowDirGrid, path, flowCurrent, returned>>
    /\ UNCHANGED solverVars

NextCache ==
    \/ AssignParameter
    \/ GenerateAgain
    \/ FlowRouting
    \/ CoastlineExtraction

SpecCache == InitCache /\ [][NextCache]_vars

(***************************************************************************)
(* hash and the elevation samples over seeds and lattice points.  Two of   *)
(* the seeds are chosen so that t * 1274126177 at one lattice point ends   *)
(* in 28 one-bits as an integer product, where only the double rounding    *)
(* keeps t & 0xfffffff away from 0xfffffff.                                *)
(***************************************************************************)
MaxHashCoord == 3
MaxPick == 6

HashSeeds == {12345, 42, 7374462, 20278652}

HashPoints == (0..MaxHashCoord) \X (0..MaxHashCoord)

\* Math.floor(hash * n), from hash's numerator
FloorOfHashTimes(numerator, n) == (numerator * n) \div HashDenominator

InitHash ==
    /\ \E seed \in HashSeeds :
         topo = [DefaultTopo EXCEPT !.width = 20 * MaxHashCoord,
                                    !.height = 20 * MaxHashCoord,
                                    !.seed = seed]
    /\ elevationGrid = NoGrid
    /\ flowDirGrid = NoGrid
    /\ path = <<>>
    /\ flowCurrent = NullCell
    /\ tpc = "idle"
    /\ baseMask = NoGrid
    /\ blobs = <<>>
    /\ loops = <<>>
    /\ returned = <<>>
    /\ SolverUnused

\* hash(x, y); only the latest call is kept
HashAt ==
    /\ \E pt \in HashPoints :
         returned' = [c \in {<<"hash", pt[1], pt[2]>>} |->
                         {Returns(hash(pt[1], pt[2], topo.seed))}]
    /\ UNCHANGED <<topo, elevationGrid, flowDirGrid, path, flowCurrent, tpc,
                   baseMask, blobs, loops>>
    /\ UNCHANGED solverVars

SampleElevations ==
    /\ elevationGrid' = generateElevationGrid(topo)
    /\ UNCHANGED <<topo, flowDirGrid, path, flowCurrent, tpc, baseMask, blobs,
                   loops, returned>>
    /\ UNCHANGED solverVars

NextHash == HashAt \/ SampleElevations

SpecHash == InitHash /\ [][NextHash]_vars

(***************************************************************************)
(* The application (class CityGenerationTool, main.js) with the            *)
(* tile-collapse solver as the one active algorithm: generateTopography,   *)
(* generateCity (generate, blendResults, render, updateStats) and the      *)
(* resize handler.  Handlers run one at a time: generateCity awaits only   *)
(* generate, which has no await of its own.                                *)
(***************************************************************************)
\* a loaded catalog of homes and parks: nothing may stand beside a home
CityCatalogs ==
    {[tiles |-> << Tile(0, "residential", "residential", 10),
                   Tile(1, "park", "park", 10) >>,
      matrix |-> [p \in {"residential", "park"} \X {"residential", "park"} |->
                    IF p[2] = "park" THEN 100 ELSE NoScore],
      buildingTypes |-> [t \in {"residential", "park"} |->
                           IF t = "residential" THEN <<1, 3>> ELSE <<0, 1>>],
      loaded |-> "json"],
     createFallbackTileset}

\* the values of #global-seed
CitySeeds == {1, 5}

\* getAlgorithmParams('wfc') and getGlobalParams(), #global-randomness at 0
CityParams ==
    {[tileSize |-> 10, entropyThreshold |-> 3, canvasWidth |-> 10 * MaxGenCells,
      canvasHeight |-> 10, scale |-> 1, randomness |-> 0, seed |-> seed] :
        seed \in CitySeeds}

\* #wfc-weight, in hundredths
WfcWeight == 100

\* the values of #water-coverage, #topo-mode and #bay-direction
TopoControls ==
    {[coverage |-> c, mode |-> m[1], bayDirection |-> m[2]] :
        c \in TopoCoverages,
        m \in {<<"lake", "top">>, <<"bay", "top">>, <<"bay", "left">>}}

\* new TopographyGenerator(canvas.width, canvas.height, 10, {...})
TopographyFor(width, height, seed, controls) ==
    [DefaultTopo EXCEPT !.width = width, !.height = height, !.seed = seed,
                        !.mode = controls.mode,
                        !.waterCoverage = controls.coverage,
                        !.riverWidth = 0,
                        !.bayDirection = controls.bayDirection]

\* generateTopography: what it assigns to waterCells and coastPolygons, eg
\* being the grid generateElevationGrid returns for t
generateTopography(t, eg) ==
    [waterCells |->
         [defined |-> TRUE,
          cells |-> IF t.mode = "bay" THEN generateBay(t, eg)
                    ELSE generateLake(t, eg)],
     coastPolygons |->
         ConcatLoops(computeWaterBlobs(WaterMask(eg, t.waterCoverage)), 1,
                     t.cellSize)]

\* isInWater(rect)
isInWater(rect, water) ==
    /\ water.defined
    /\ \E k \in DOMAIN water.cells :
          LET w == water.cells[k]
          IN  /\ rect.x < w.x + w.width
              /\ rect.x + rect.width > w.x
              /\ rect.y < w.y + w.height
              /\ rect.y + rect.height > w.y

\* blendResults' copies of one result's features: opacity 1 * weight
Scaled(features, weight) ==
    [k \in DOMAIN features |-> [opacity |-> weight] @@ features[k]]

\* blendResults for one result, applyGlobalEffects moving nothing
blendResults(result, weight, water, polygons) ==
    [defined |-> TRUE,
     water |-> IF polygons # <<>> THEN polygons ELSE water.cells,
     buildings |-> Scaled(result.buildings, weight),
     roads |-> Scaled(result.roads, weight),
     parks |-> Scaled(result.parks, weight)]

\* updateStats(city, generationTime): the counts it writes (the time, a
\* wall-clock reading, is left out)
updateStats(city) ==
    [buildings |-> Len(city.buildings), roads |-> Len(city.roads)]

\* after the constructor: setupEventListeners has called
\* generateTopography(true); the first city, drawn by another generator, is
\* left out
InitCity ==
    /\ tileset \in CityCatalogs
    /\ loadPending = FALSE
    /\ gridWidth = 0
    /\ gridHeight = 0
    /\ entropyThreshold = 0
    /\ grid = <<>>
    /\ iterations = 0
    /\ pc = "idle"
    /\ current = <<0, 0>>
    /\ queue = <<>>
    /\ visited = {}
    /\ processed = <<>>
    /\ Math_seed = AnyStream
    /\ params = NoParams
    /\ generated = <<>>
    /\ published = {}
    /\ \E seed \in CitySeeds, controls \in TopoControls :
         \E t \in {TopographyFor(10 * MaxGenCells, 10, seed, controls)} :
            \E made \in {generateTopography(t, generateElevationGrid(t))} :
               /\ waterCells = made.waterCells
               /\ coastPolygons = made.coastPolygons
    /\ currentCity = NoCity
    /\ renderRequested = FALSE
    /\ frames = 0
    /\ view = InitialView
    /\ drawn = InitialView
    /\ pointers = NoPointers
    /\ handled = 0
    /\ isGenerating = FALSE
    /\ invocations = <<>>
    /\ TerrainUnused

\* the Generate Topography button: generateTopography(true)
GenerateTopography ==
    /\ pc = "idle"
    /\ \E seed \in CitySeeds, controls \in TopoControls :
         \E t \in {TopographyFor(10 * MaxGenCells, 10, seed, controls)} :
            \E made \in {generateTopography(t, generateElevationGrid(t))} :
               /\ waterCells' = made.waterCells
               /\ coastPolygons' = made.coastPolygons
    /\ drawn' = view
    /\ UNCHANGED <<tileset, gridWidth, gridHeight, entropyThreshold, grid,
                   iterations, pc, current, queue, visited, processed,
                   Math_seed, loadPending, params, generated, published,
                   currentCity, renderRequested, frames, view, pointers,
                   handled, isGenerating, invocations>>
    /\ UNCHANGED terrainVars

\* generateCity up to generate's call of collapseWaveFunction
GenerateCity ==
    /\ pc = "idle"
    /\ ~isGenerating
    /\ isGenerating' = TRUE
    /\ params' \in CityParams
    /\ IF waterCells.defined
       THEN UNCHANGED <<waterCells, coastPolygons>>
       ELSE \E controls \in TopoControls :
              \E t \in {TopographyFor(params'.canvasWidth, params'.canvasHeight,
                                      params'.seed, controls)} :
                 \E made \in {generateTopography(t, generateElevationGrid(t))} :
                    /\ waterCells' = made.waterCells
                    /\ coastPolygons' = made.coastPolygons
    /\ Math_seed' = SeedRandom(params'.seed)
    /\ gridWidth' = params'.canvasWidth \div (params'.tileSize * params'.scale)
    /\ gridHeight' = params'.canvasHeight \div (params'.tileSize * params'.scale)
    /\ entropyThreshold' = params'.entropyThreshold
    /\ grid' = initializeWFCGrid(tileset, gridWidth', gridHeight')
    /\ iterations' = 0
    /\ pc' = "loop"
    /\ UNCHANGED <<tileset, current, queue, visited, processed, loadPending,
                   generated, published, currentCity, renderRequested, frames,
                   view, drawn, pointers, handled, invocations>>
    /\ UNCHANGED terrainVars

\* generate returns; blendResults, renderer.render, updateStats
GenerateCityReturns ==
    /\ pc = "done"
    /\ params # NoParams
    /\ LET result == wfcToStructures(tileset, grid, gridWidth, gridHeight,
                                     params.tileSize * params.scale, Math_seed)
           city == blendResults(result[1], WfcWeight, waterCells, coastPolygons)
       IN  /\ currentCity' = city
           /\ published' = published \cup
                  {[stats |-> updateStats(city),
                    collapsed |-> \A c \in Cells(gridWidth, gridHeight) :
                                      grid[c].collapsed]}
    /\ Math_seed' = SeedRandom(params.seed)
    /\ drawn' = view
    /\ params' = NoParams
    /\ gridWidth' = 0
    /\ gridHeight' = 0
    /\ entropyThreshold' = 0
    /\ grid' = <<>>
    /\ iterations' = 0
    /\ current' = <<0, 0>>
    /\ pc' = "idle"
    /\ isGenerating' = FALSE
    /\ UNCHANGED <<tileset, queue, visited, processed, loadPending, generated,
                   waterCells, coastPolygons, renderRequested, frames, view,
                   pointers, handled, invocations>>
    /\ UNCHANGED terrainVars

\* the window's resize handler
Resize ==
    /\ pc = "idle"
    /\ currentCity.defined
    /\ currentCity' =
          IF waterCells.defined /\ waterCells.cells # <<>>
          THEN [currentCity EXCEPT !.buildings =
                   SelectSeq(@, LAMBDA b : ~isInWater(b.box, waterCells))]
          ELSE currentCity
    /\ drawn' = view
    /\ UNCHANGED <<tileset, gridWidth, gridHeight, entropyThreshold, grid,
                   iterations, pc, current, queue, visited, processed,
                   Math_seed, loadPending, params, generated, published,
                   waterCells, coastPolygons, renderRequested, frames, view,
                   pointers, handled, isGenerating, invocations>>
    /\ UNCHANGED terrainVars

NextCity ==
    \/ GenerateTopography
    \/ GenerateCity
    \/ Iterate
    \/ PropagateStep
    \/ PropagateReturn
    \/ Return
    \/ GenerateCityReturns
    \/ Resize

SpecCity == InitCity /\ [][NextCity]_vars

(***************************************************************************)
(* generateCity as the handlers call it, with any generators active: each  *)
(* `await` of generateCity and blendAlgorithms is a point at which another *)
(* handler may call generateCity.  waterCells is set before the first call *)
(* (setupEventListeners calls generateTopography), so the call of          *)
(* generateTopography(false) at the top of generateCity is not taken.      *)
(* applyGlobalEffects draws from Math.random(): each offset                *)
(* (Math.random() - 0.5) * randomness * 20 is any value of Jitters.        *)
(***************************************************************************)
\* the largest number of generateCity calls
MaxCalls == 2
\* the largest number of active algorithms of a call
MaxAlgorithms == 2

\* the values of #global-seed
AppSeeds == {1, 42}

\* the values of #global-randomness, in hundredths
Randomness == {0, 50}

\* offsets <<to x, to y>> applyGlobalEffects adds at randomness 0.5: each is
\* a value of [-5, 5)
Jitters == {<<-5, 4>>, <<4, 0>>}

\* what an active algorithm's generate resolves to, with the algorithm's weight
AlgorithmOutputs ==
    {[result |-> [buildings |-> << [box |-> [x |-> 0, y |-> 0, width |-> 10,
                                            height |-> 10],
                                    type |-> "residential"] >>,
                  roads |-> <<>>, parks |-> <<>>, water |-> <<>>],
      weight |-> 100],
     [result |-> [buildings |-> <<>>, roads |-> <<>>,
                  parks |-> << [box |-> [x |-> 10, y |-> 0, width |-> 10,
                                         height |-> 10]] >>,
                  water |-> <<>>],
      weight |-> 50]}

\* an invocation of generateCity that has not started
NewInvocation ==
    [at |-> "new", left |-> 0, outputs |-> <<>>, randomness |-> 0, seed |-> 0,
     city |-> NoCity, rendered |-> FALSE, generates |-> 0]

\* an invocation that has ended: how, whether it called renderer.render and
\* how many times it called an algorithm's generate
Ended(outcome, rendered, generates) ==
    [NewInvocation EXCEPT !.at = outcome, !.rendered = rendered,
                          !.generates = generates]

\* the mutant of GuardHeld: `if (this.isGenerating) return;` is left out
GuardNeverHeld == FALSE

\* if (this.isGenerating) return;
GuardHeld == isGenerating

RECURSIVE BlendedFrom(_, _, _)
\* blendResults' forEach over the results, from the k-th on, for one key
BlendedFrom(outputs, k, key) ==
    IF k > Len(outputs) THEN <<>>
    ELSE Scaled(outputs[k].result[key], outputs[k].weight)
            \o BlendedFrom(outputs, k + 1, key)

\* blendResults' `blended` before applyGlobalEffects: water is the array
\* this.coastPolygons or, when that is empty, the array this.waterCells
blendedOf(outputs, water, polygons) ==
    [defined |-> TRUE,
     water |-> IF polygons # <<>> THEN polygons
               ELSE water.cells \o BlendedFrom(outputs, 1, "water"),
     buildings |-> BlendedFrom(outputs, 1, "buildings"),
     roads |-> BlendedFrom(outputs, 1, "roads"),
     parks |-> BlendedFrom(outputs, 1, "parks")]

\* applyGlobalEffects on the features of one key, js[k] being the offsets
\* drawn for the k-th: feature.x += ..., feature.y += ...
Jittered(features, js) ==
    [k \in DOMAIN features |->
        [features[k] EXCEPT !.box.x = @ + js[k][1], !.box.y = @ + js[k][2]]]

\* the same on water cells, which hold x and y themselves
JitteredCells(cells, js) ==
    [k \in DOMAIN cells |->
        [cells[k] EXCEPT !.x = @ + js[k][1], !.y = @ + js[k][2]]]

\* every city applyGlobalEffects can leave in `city`.  A coastline polygon
\* is an array of points: `feature.x += ...` gives the array a property x
\* and moves none of its points.
applyGlobalEffects(city, randomness, polygons) ==
    IF randomness = 0 THEN {city}
    ELSE {[city EXCEPT
             !.water = IF polygons # <<>> THEN @ ELSE JitteredCells(@, jw),
             !.buildings = Jittered(@, jb),
             !.roads = Jittered(@, jr),
             !.parks = Jittered(@, jp)] :
               jw \in [DOMAIN city.water -> Jitters],
               jb \in [DOMAIN city.buildings -> Jitters],
               jr \in [DOMAIN city.roads -> Jitters],
               jp \in [DOMAIN city.parks -> Jitters]}

\* after the constructor's generateTopography(true), no call made yet
InitApp ==
    /\ tileset = NoTileset
    /\ loadPending = TRUE
    /\ gridWidth = 0
    /\ gridHeight = 0
    /\ entropyThreshold = 0
    /\ grid = <<>>
    /\ iterations = 0
    /\ pc = "idle"
    /\ current = <<0, 0>>
    /\ queue = <<>>
    /\ visited = {}
    /\ processed = <<>>
    /\ Math_seed = AnyStream
    /\ params = NoParams
    /\ generated = <<>>
    /\ published = {}
    /\ \E seed \in AppSeeds :
         \E t \in {TopographyFor(10 * MaxGenCells, 10, seed,
                      [coverage |-> 30, mode |-> "lake", bayDirection |-> "top"])} :
            \E made \in {generateTopography(t, generateElevationGrid(t))} :
               /\ waterCells = made.waterCells
               /\ coastPolygons = made.coastPolygons
    /\ currentCity = NoCity
    /\ renderRequested = FALSE
    /\ frames = 0
    /\ view = InitialView
    /\ drawn = InitialView
    /\ pointers = NoPointers
    /\ handled = 0
    /\ isGenerating = FALSE
    /\ invocations = [i \in 1..MaxCalls |-> NewInvocation]
    /\ TerrainUnused

\* what generateCity leaves alone
AppUnchanged ==
    /\ UNCHANGED <<tileset, gridWidth, gridHeight, entropyThreshold, grid,
                   iterations, pc, current, queue, visited, processed,
                   loadPending, params, generated, renderRequested, frames,
                   view, pointers, handled>>
    /\ UNCHANGED terrainVars

\* a handler calls generateCity: the code up to the first await, or to the
\* end when the guard is held or no algorithm is active
CallGenerateCity ==
    /\ \E i \in DOMAIN invocations :
         /\ invocations[i].at = "new"
         /\ \A j \in 1..(i - 1) : invocations[j].at # "new"
         /\ IF GuardHeld
            THEN /\ invocations' = [invocations EXCEPT
                                      ![i] = Ended("skipped", FALSE, 0)]
                 /\ UNCHANGED <<isGenerating, currentCity, drawn, published>>
            ELSE \E n \in 0..MaxAlgorithms :
                   IF n = 0
                   THEN /\ currentCity' = [NoCity EXCEPT
                                             !.defined = TRUE,
                                             !.water = waterCells.cells]
                        /\ drawn' = view
                        /\ published' = published \cup
                              {[stats |-> updateStats(currentCity'),
                                collapsed |-> TRUE]}
                        /\ isGenerating' = FALSE
                        /\ invocations' = [invocations EXCEPT
                                             ![i] = Ended("rendered", TRUE, 0)]
                   ELSE /\ \E randomness \in Randomness, seed \in AppSeeds :
                             invocations' = [invocations EXCEPT
                                ![i] = [NewInvocation EXCEPT
                                          !.at = "awaiting", !.left = n,
                                          !.randomness = randomness,
                                          !.seed = seed, !.generates = 1]]
                        /\ isGenerating' = TRUE
                        /\ UNCHANGED <<currentCity, drawn, published>>
    /\ UNCHANGED <<Math_seed, waterCells, coastPolygons>>
    /\ AppUnchanged

\* the generate a call awaits settles: it rejects (catch, finally), or it
\* resolves and blendAlgorithms calls the next algorithm's generate or, after
\* the last, blendResults
GenerateSettles ==
    /\ \E i \in DOMAIN invocations :
         /\ invocations[i].at = "awaiting"
         /\ \/ /\ invocations' = [invocations EXCEPT
                    ![i] = Ended("caught", FALSE, invocations[i].generates)]
               /\ isGenerating' = FALSE
               /\ UNCHANGED <<Math_seed, waterCells>>
            \/ \E out \in AlgorithmOutputs :
                 LET outputs == Append(invocations[i].outputs, out)
                 IN  IF invocations[i].left > 1
                     THEN /\ invocations' = [invocations EXCEPT
                                ![i].left = @ - 1,
                                ![i].outputs = outputs,
                                ![i].generates = @ + 1]
                          /\ UNCHANGED <<isGenerating, Math_seed, waterCells>>
                     ELSE /\ \E city \in applyGlobalEffects(
                                   blendedOf(outputs, waterCells, coastPolygons),
                                   invocations[i].randomness, coastPolygons) :
                                /\ invocations' = [invocations EXCEPT
                                      ![i].at = "blended",
                                      ![i].left = 0,
                                      ![i].outputs = <<>>,
                                      ![i].city = city]
                                /\ waterCells' =
                                      IF coastPolygons # <<>> THEN waterCells
                                      ELSE [waterCells EXCEPT !.cells = city.water]
                          /\ Math_seed' = SeedRandom(invocations[i].seed)
                          /\ UNCHANGED isGenerating
    /\ UNCHANGED <<coastPolygons, currentCity, drawn, published>>
    /\ AppUnchanged

\* blendAlgorithms has resolved: this.currentCity = ..., renderer.render,
\* updateStats, finally
GenerateCityEnds ==
    /\ \E i \in DOMAIN invocations :
         /\ invocations[i].at = "blended"
         /\ currentCity' = invocations[i].city
         /\ published' = published \cup
               {[stats |-> updateStats(invocations[i].city), collapsed |-> TRUE]}
         /\ invocations' = [invocations EXCEPT
               ![i] = Ended("rendered", TRUE, invocations[i].generates)]
    /\ drawn' = view
    /\ isGenerating' = FALSE
    /\ UNCHANGED <<Math_seed, waterCells, coastPolygons>>
    /\ AppUnchanged

NextApp == CallGenerateCity \/ GenerateSettles \/ GenerateCityEnds

SpecApp == InitApp /\ [][NextApp]_vars

(***************************************************************************)
(* Pan and zoom: the wheel and pointer handlers, requestRender and the     *)
(* animation-frame callback.  Scales are held in hundredths and divisions  *)
(* round down.                                                             *)
(***************************************************************************)
MaxEvents == 4
MaxFingers == 2

\* where the cursor or the pinch midpoint is, in canvas coordinates
ViewPoints == {<<0, 0>>, <<10, 10>>}

\* pointer movements between two pointermove events
PanDeltas == {<<10, 0>>, <<0, -10>>}

\* the distance between two fingers
PinchDistances == {10, 40}

\* CityRenderer.pan(dx, dy)
pan(v, dx, dy) == [v EXCEPT !.offsetX = @ + dx, !.offsetY = @ + dy]

\* CityRenderer.zoomAt(screenX, screenY, factor), factor in hundredths
zoomAt(v, screenX, screenY, factor) ==
    LET scale == Max(25, Min(400, (v.scale * factor) \div 100))
    IN  [scale |-> scale,
         offsetX |-> screenX - ((screenX - v.offsetX) * scale) \div v.scale,
         offsetY |-> screenY - ((screenY - v.offsetY) * scale) \div v.scale]

\* the mutant of requestRender: the early return left out
requestRenderAlways(request) ==
    [renderRequested |-> TRUE, frames |-> request.frames + 1]

\* requestRender(): renderRequested and the callbacks held afterwards
requestRender(request) ==
    IF request.renderRequested THEN request
    ELSE [renderRequested |-> TRUE, frames |-> request.frames + 1]

\* this.renderRequested and the callbacks held
Request == [renderRequested |-> renderRequested, frames |-> frames]

\* after the constructor, no generator being weighted: the first city
\* holds the water alone
InitView ==
    /\ tileset = NoTileset
    /\ loadPending = TRUE
    /\ gridWidth = 0
    /\ gridHeight = 0
    /\ entropyThreshold = 0
    /\ grid = <<>>
    /\ iterations = 0
    /\ pc = "idle"
    /\ current = <<0, 0>>
    /\ queue = <<>>
    /\ visited = {}
    /\ processed = <<>>
    /\ Math_seed = AnyStream
    /\ params = NoParams
    /\ generated = <<>>
    /\ published = {}
    /\ \E seed \in CitySeeds, controls \in TopoControls :
         \E t \in {TopographyFor(10 * MaxGenCells, 10, seed, controls)} :
            \E made \in {generateTopography(t, generateElevationGrid(t))} :
               /\ waterCells = made.waterCells
               /\ coastPolygons = made.coastPolygons
               /\ currentCity = [NoCity EXCEPT !.defined = TRUE,
                                               !.water = made.waterCells.cells]
    /\ renderRequested = FALSE
    /\ frames = 0
    /\ view = InitialView
    /\ drawn = InitialView
    /\ pointers = NoPointers
    /\ handled = 0
    /\ isGenerating = FALSE
    /\ invocations = <<>>
    /\ TerrainUnused

\* what a handler leaves alone
ViewUnchanged ==
    /\ UNCHANGED <<tileset, gridWidth, gridHeight, entropyThreshold, grid,
                   iterations, pc, current, queue, visited, processed,
                   Math_seed, loadPending, params, generated, published,
                   waterCells, coastPolygons, currentCity, isGenerating,
                   invocations>>
    /\ UNCHANGED terrainVars

\* the wheel handler, a modifier key held
Wheel ==
    /\ handled < MaxEvents
    /\ \E factor \in {110, 90}, at \in ViewPoints :
         view' = zoomAt(view, at[1], at[2], factor)
    /\ renderRequested' = requestRender(Request).renderRequested
    /\ frames' = requestRender(Request).frames
    /\ handled' = handled + 1
    /\ UNCHANGED <<drawn, pointers>>
    /\ ViewUnchanged

\* both pointerdown handlers, for the left button or a finger
PointerDown ==
    /\ handled < MaxEvents
    /\ \E kind \in {"mouse", "touch"} :
         /\ kind = "touch" => pointers.active < MaxFingers
         /\ pointers' = [pointers EXCEPT
                            !.isPanning = TRUE,
                            !.active = IF kind = "touch" THEN @ + 1 ELSE @]
    /\ handled' = handled + 1
    /\ UNCHANGED <<renderRequested, frames, view, drawn>>
    /\ ViewUnchanged

\* both pointermove handlers: the drag, then the pinch
PointerMove ==
    /\ handled < MaxEvents
    /\ \E kind \in {"mouse", "touch"}, by \in PanDeltas, at \in ViewPoints,
          newDist \in PinchDistances :
         LET dragged == pointers.isPanning
             pinched == /\ kind = "touch"
                        /\ pointers.active = 2
                        /\ pointers.previousPinchDistance # 0
             afterDrag == IF dragged THEN pan(view, by[1], by[2]) ELSE view
             afterPinch ==
                 IF pinched
                 THEN pan(zoomAt(afterDrag, at[1], at[2],
                                 (100 * newDist)
                                     \div pointers.previousPinchDistance),
                          by[1], by[2])
                 ELSE afterDrag
             first == IF dragged THEN requestRender(Request) ELSE Request
             second == IF pinched THEN requestRender(first) ELSE first
         IN  /\ kind = "touch" => pointers.active > 0
             /\ view' = afterPinch
             /\ renderRequested' = second.renderRequested
             /\ frames' = second.frames
             /\ pointers' = IF kind = "touch" /\ pointers.active = 2
                            THEN [pointers EXCEPT
                                     !.previousPinchDistance = newDist]
                            ELSE pointers
    /\ handled' = handled + 1
    /\ UNCHANGED drawn
    /\ ViewUnchanged

\* both pointerup handlers, and pointercancel for a finger
PointerUp ==
    /\ handled < MaxEvents
    /\ \E kind \in {"mouse", "touch"}, cancelled \in BOOLEAN :
         /\ kind = "touch" => pointers.active > 0
         /\ cancelled => kind = "touch"
         /\ LET active == IF kind = "touch" THEN pointers.active - 1
                          ELSE pointers.active
            IN  pointers' =
                   [isPanning |-> cancelled /\ pointers.isPanning,
                    active |-> active,
                    previousPinchDistance |->
                        IF active < 2 THEN 0
                        ELSE pointers.previousPinchDistance]
    /\ handled' = handled + 1
    /\ UNCHANGED <<renderRequested, frames, view, drawn>>
    /\ ViewUnchanged

\* the browser runs a requestAnimationFrame callback
Frame ==
    /\ frames > 0
    /\ frames' = frames - 1
    /\ renderRequested' = FALSE
    /\ drawn' = IF currentCity.defined THEN view ELSE drawn
    /\ UNCHANGED <<view, pointers, handled>>
    /\ ViewUnchanged

NextView == Wheel \/ PointerDown \/ PointerMove \/ PointerUp \/ Frame

SpecView == InitView /\ [][NextView]_vars

\* the browser runs every callback it holds
SpecViewFair == SpecView /\ WF_vars(Frame)

(***************************************************************************)
(* Properties of the tile-collapse solver.                                 *)
(***************************************************************************)
Adjacent(c, n) ==
    \/ c[1] = n[1] /\ (c[2] = n[2] + 1 \/ n[2] = c[2] + 1)
    \/ c[2] = n[2] /\ (c[1] = n[1] + 1 \/ n[1] = c[1] + 1)

Contradiction(c) == ~grid[c].collapsed /\ grid[c].entropy = 0

OpenCell(c) == ~grid[c].collapsed /\ grid[c].entropy > 0

\* C1: in every state of a tile-collapse run, an uncollapsed cell's entropy
\* is the number of tile ids in its possibilities, and a collapsed cell has
\* entropy 0 and exactly one possibility, its resolved tile.
C1_EntropyInvariant ==
    \A c \in DOMAIN grid :
        IF grid[c].collapsed
        THEN /\ grid[c].entropy = 0
             /\ Len(grid[c].possibilities) = 1
             /\ grid[c].possibilities[1] = grid[c].tileId
        ELSE grid[c].entropy = Len(grid[c].possibilities)

\* a collapsed cell beside an uncollapsed one whose possibilities the
\* propagation has reduced, but not emptied
C1_Witness ==
    \E c, n \in DOMAIN grid :
        /\ Adjacent(c, n)
        /\ grid[c].collapsed
        /\ ~grid[n].collapsed
        /\ grid[n].entropy = 1
        /\ Len(tileset.tiles) = 2
        /\ n \in visited

\* whether the matrix's score of tile a's category beside tile b's exceeds
\* the threshold, for two tiles of the catalog
TilesCompatible(ts, a, b) ==
    LET i == FindTile(ts, a)
        j == FindTile(ts, b)
    IN  ScoreAccepted(AdjacencyScore(ts, ts.tiles[i].type, ts.tiles[j].type))

\* C2: when collapseWaveFunction returns, the adjacency score between the
\* tile categories of any two orthogonally adjacent collapsed cells exceeds
\* 0.3, for every catalog and matrix, whichever cell was collapsed first.
C2_AdjacentCompatible ==
    pc = "done" =>
        \A c, n \in DOMAIN grid :
            ( /\ Adjacent(c, n)
              /\ grid[c].collapsed /\ FindTile(tileset, grid[c].tileId) # 0
              /\ grid[n].collapsed /\ FindTile(tileset, grid[n].tileId) # 0 )
                => TilesCompatible(tileset, grid[c].tileId, grid[n].tileId)

\* every pair of tile categories of the catalog is compatible
AllCompatible(ts) ==
    \A i, j \in DOMAIN ts.tiles :
        ScoreAccepted(AdjacencyScore(ts, ts.tiles[i].type, ts.tiles[j].type))

\* C8: with a catalog in which every pair of categories is compatible, no
\* cell ever has entropy 0 while uncollapsed, and the solver returns within
\* its budget with every cell collapsed.
C8_AllCompatibleConverges ==
    AllCompatible(tileset) =>
        /\ \A c \in DOMAIN grid : ~Contradiction(c)
        /\ iterations <= maxIterations
        /\ pc = "done" => \A c \in DOMAIN grid : grid[c].collapsed

\* the solver has returned from a grid of MaxCells cells of an all-compatible
\* catalog, with a threshold that sends it through the random branch
C8_Witness ==
    /\ pc = "done"
    /\ AllCompatible(tileset)
    /\ gridWidth * gridHeight = MaxCells
    /\ entropyThreshold < Len(tileset.tiles)
    /\ \A c \in DOMAIN grid : grid[c].collapsed

NoRepeat(s) == \A i, j \in DOMAIN s : s[i] = s[j] => i = j

\* a measure of the work left: the iterations of the budget not yet run,
\* and within one iteration the cells propagateConstraints has not visited
\* and the entries of its queue
WorkLeft ==
    LET cells == gridWidth * gridHeight
        perIteration == 5 * cells + 4
        inIteration ==
            IF pc = "loop" THEN perIteration - 1
            ELSE 5 * Cardinality(DOMAIN grid \ visited) + Len(queue) + 1
    IN  IF pc = "done" THEN 0
        ELSE (2 * cells - iterations) * perIteration + inIteration + 1

\* C10: collapseWaveFunction terminates after at most 2 * gridWidth *
\* gridHeight iterations, and every propagateConstraints call terminates
\* after processing each grid cell at most once: every step of the solver
\* lowers WorkLeft, which is never negative.
C10_Terminates ==
    /\ [](/\ iterations <= 2 * gridWidth * gridHeight
          /\ NoRepeat(processed)
          /\ Range(processed) \subseteq DOMAIN grid
          /\ WorkLeft >= 0)
    /\ [][WorkLeft' < WorkLeft]_vars

\* the solver has returned with its budget spent
C10_Witness ==
    /\ pc = "done"
    /\ iterations = 2 * gridWidth * gridHeight
    /\ gridWidth * gridHeight > 1

(***************************************************************************)
(* Properties of the terrain engine.                                       *)
(***************************************************************************)
\* the grid cell of a point of a path
PointCell(p) == <<p.y \div topo.cellSize, p.x \div topo.cellSize>>

\* C3: getFlowPath terminates after emitting at most rows * cols points: it
\* never visits a cell twice, every step moves to a cell of strictly lower
\* elevation, and the last cell of the path has no flow direction.
C3_FlowPathTerminates ==
    tpc \in {"trace", "returned"} =>
        /\ Len(path) <= elevationGrid.rows * elevationGrid.cols
        /\ NoRepeat(path)
        /\ \A k \in 1..(Len(path) - 1) :
              elevationGrid.data[PointCell(path[k + 1])]
                < elevationGrid.data[PointCell(path[k])]
        /\ \A k \in DOMAIN path :
              PointCell(path[k]) \in GridCells(elevationGrid.rows, elevationGrid.cols)
        /\ tpc = "returned" =>
              /\ path # <<>>
              /\ flowDirGrid.data[PointCell(path[Len(path)])] = NullCell

\* getFlowPath has returned a path of MaxElevation + 1 points, one for each
\* elevation
C3_Witness ==
    /\ tpc = "returned"
    /\ Len(path) = MaxElevation + 1

\* C4: every loop marchingSquaresOnMask / extractCoastlines returns is a
\* closed loop whose first and last points coincide and which has at least
\* 3 distinct vertices.
C4_LoopsClosed ==
    \A k \in DOMAIN loops :
        /\ loops[k][1] = loops[k][Len(loops[k])]
        /\ Cardinality(Range(loops[k])) >= 3

\* the cells of a blob
BlobCells(blob) == {c \in DOMAIN blob.mask.data : blob.mask.data[c]}

\* C5: computeWaterBlobs tags a component 'ocean' if and only if at least
\* one of its cells lies in the first or last row or the first or last
\* column of the grid, and 'lake' otherwise.
C5_OceanIffBoundary ==
    \A k \in DOMAIN blobs :
        LET edge == \E c \in BlobCells(blobs[k]) :
                       \/ c[1] \in {0, baseMask.rows - 1}
                       \/ c[2] \in {0, baseMask.cols - 1}
        IN  /\ blobs[k].type \in {"ocean", "lake"}
            /\ blobs[k].type = "ocean" <=> edge

\* a mask with a lake and an ocean
C5_Witness ==
    /\ tpc = "blobs"
    /\ \E k \in DOMAIN blobs : blobs[k].type = "lake"
    /\ \E k \in DOMAIN blobs : blobs[k].type = "ocean"

\* C7: for fixed width, height, cellSize and parameters, hash,
\* generateElevationGrid, computeFlowDirections, getFlowPath and
\* extractCoastlines return equal results on every call, on any instance
\* and in any call order.
C7_TerrainOrderIndependent ==
    \A c \in DOMAIN returned : Cardinality(returned[c]) <= 1

\* C6: any two calls of generate with equal parameters return equal
\* structures, whatever drew from the seeded stream before the call and
\* whenever the constructor's tileset load settles relative to the calls.
C6_GenerateFunctionOfParams ==
    \A p \in DOMAIN generated : Cardinality(generated[p]) <= 1

\* C11: if loading the tile catalog fails, or has not completed when
\* generate is called, the solver uses the built-in fallback catalog; the
\* collapse never runs with a missing tileset.
C11_FallbackWhenNoCatalog ==
    /\ pc \in {"loop", "propagate", "done"} =>
          tileset # NoTileset /\ tileset.tiles # <<>>
    /\ pc # "idle" /\ loadPending => tileset = createFallbackTileset
    /\ ~loadPending /\ tileset.loaded # "json" => tileset = createFallbackTileset

\* a run that began before the load settled, and one after a failed load
C11_Witness ==
    /\ pc = "propagate"
    /\ ~loadPending
    /\ tileset.loaded = "fallback"
    /\ \E p \in DOMAIN generated : generated[p] # {}

\* the category of the tile cell c is collapsed to, or "none"
CellCategory(c) ==
    IF grid[c].collapsed /\ FindTile(tileset, grid[c].tileId) # 0
    THEN tileset.tiles[FindTile(tileset, grid[c].tileId)].type
    ELSE "none"

\* how many primitives of the sequence prims lie at cell c
PrimitivesAt(prims, c, tileSize) ==
    Cardinality({k \in DOMAIN prims :
                   prims[k].box = [x |-> c[1] * tileSize, y |-> c[2] * tileSize,
                                   width |-> tileSize, height |-> tileSize]})

\* C12: wfcToStructures emits exactly one primitive for each collapsed cell
\* whose category is residential, commercial or industrial (a building),
\* road (a road) or park (a park), at (column * tileSize, row * tileSize)
\* with width and height tileSize, and nothing for any other cell, on
\* partially collapsed grids too.
C12_OnePrimitivePerCell ==
    pc \in {"loop", "propagate", "done"} =>
        LET tileSize == params.tileSize * params.scale
            out == wfcToStructures(tileset, grid, gridWidth, gridHeight,
                                   tileSize, Math_seed)[1]
            Expect(prims, categories) ==
                /\ \A c \in DOMAIN grid :
                      PrimitivesAt(prims, c, tileSize) =
                          IF CellCategory(c) \in categories THEN 1 ELSE 0
                /\ Len(prims) = Cardinality({c \in DOMAIN grid :
                                               CellCategory(c) \in categories})
        IN  /\ Expect(out.buildings, {"residential", "commercial", "industrial"})
            /\ Expect(out.roads, {"road"})
            /\ Expect(out.parks, {"park"})
            /\ out.water = <<>>
            /\ \A k \in DOMAIN out.buildings :
                  out.buildings[k].type \in
                      {"residential", "commercial", "industrial"}

\* a grid left with a building beside a cell that yields nothing
C12_Witness ==
    /\ pc = "done"
    /\ \E c \in DOMAIN grid :
          CellCategory(c) \in {"residential", "commercial", "industrial"}
    /\ \E c \in DOMAIN grid : CellCategory(c) \in {"none", "empty"}

\* C13: a terrain configuration with non-positive width, height or
\* cellSize is rejected with a configuration error before any grid is
\* allocated; for every other configuration elevation-grid construction
\* succeeds.
C13_BadConfigRejected ==
    LET bad == topo.width <= 0 \/ topo.height <= 0 \/ topo.cellSize <= 0
    IN  /\ \A r \in returned[<<"generateElevationGrid", 0, 0>>] : r.threw <=> bad
        /\ elevationGrid.defined => ~bad

\* C14: a run that ends with a contradiction or with its iteration budget
\* spent returns its partial structures, and the statistics shown for it
\* tell that the grid was not fully collapsed: no run that collapsed its
\* whole grid has shown the same statistics.
C14_StatsTellPartialRun ==
    \A a, b \in published : a.stats = b.stats => a.collapsed = b.collapsed


\* C15: hash returns a value in [0, 1): its numerator is at least 0 and
\* strictly below its denominator 0xfffffff, so Math.floor(hash * n) is one
\* of 0 .. n - 1 and every elevation sample lies in [0, 1).
C15_HashBelowOne ==
    /\ \A c \in DOMAIN returned : \A r \in returned[c] :
          /\ r.value >= 0
          /\ r.value < HashDenominator
          /\ \A n \in 1..MaxPick : FloorOfHashTimes(r.value, n) \in 0..(n - 1)
    /\ elevationGrid.defined =>
          \A c \in DOMAIN elevationGrid.data :
              /\ elevationGrid.data[c] >= 0
              /\ elevationGrid.data[c] < 4 * HashDenominator

\* hash has been called where the integer product ends in 28 one-bits, and
\* the elevation grid has been sampled
C15_Witness ==
    /\ topo.seed = 7374462
    /\ <<"hash", 2, 3>> \in DOMAIN returned
    /\ \E r \in returned[<<"hash", 2, 3>>] : r.value = 0
    /\ elevationGrid.defined
    /\ \E c \in DOMAIN elevationGrid.data : elevationGrid.data[c] > 0


\* cells that share an edge
EdgeAdjacent(c, n) ==
    \/ c[1] = n[1] /\ (c[2] = n[2] + 1 \/ n[2] = c[2] + 1)
    \/ c[2] = n[2] /\ (c[1] = n[1] + 1 \/ n[1] = c[1] + 1)

RECURSIVE GrowWithin(_, _)
\* the cells of S joined to R by steps across edges inside S
GrowWithin(S, R) ==
    LET more == {n \in S \ R : \E r \in R : EdgeAdjacent(r, n)}
    IN  IF more = {} THEN R ELSE GrowWithin(S, R \cup more)

\* C16: computeWaterBlobs partitions the true cells of the mask into its
\* maximal 4-connected components: every true cell is in exactly one blob,
\* no blob holds a false cell, every blob is 4-connected, and no two blobs
\* hold cells that share an edge (cells that touch only at a corner are in
\* different blobs unless joined the long way round).
C16_BlobsAreComponents ==
    tpc \in {"blobs", "loops"} =>
        LET water == {c \in DOMAIN baseMask.data : baseMask.data[c]}
        IN  /\ \A c \in water :
                  Cardinality({k \in DOMAIN blobs : c \in BlobCells(blobs[k])}) = 1
            /\ \A k \in DOMAIN blobs :
                  /\ BlobCells(blobs[k]) # {}
                  /\ BlobCells(blobs[k]) \subseteq water
                  /\ \A c \in BlobCells(blobs[k]) :
                        GrowWithin(BlobCells(blobs[k]), {c}) = BlobCells(blobs[k])
            /\ \A k, m \in DOMAIN blobs :
                  k # m => \A c \in BlobCells(blobs[k]), n \in BlobCells(blobs[m]) :
                              ~EdgeAdjacent(c, n)

\* two true cells that touch at a corner lie in different blobs, one of
\* them in a blob of three cells or more
C16_Witness ==
    /\ tpc = "blobs"
    /\ \E k, m \in DOMAIN blobs :
          /\ k # m
          /\ Cardinality(BlobCells(blobs[k])) >= 3
          /\ \E c \in BlobCells(blobs[k]), n \in BlobCells(blobs[m]) :
                (c[1] - n[1]) * (c[1] - n[1]) = 1 /\ (c[2] - n[2]) * (c[2] - n[2]) = 1


\* the grid cells whose squares a list of waterCells holds
CellsOf(cells, cellSize) ==
    {<<cells[k].y \div cellSize, cells[k].x \div cellSize>> :
        k \in DOMAIN cells}

\* C17: in bay mode a cell is water in the mask extractCoastlines builds
\* exactly when generate() reports it as water.
C17_BayMaskIsGeneratedWater ==
    topo.mode = "bay" /\ baseMask.defined =>
        \A r \in returned[<<"generate", 0, 0>>] :
            {c \in DOMAIN baseMask.data : baseMask.data[c]}
                = CellsOf(r.value, topo.cellSize)

\* the same for the default mode, where the two thresholds are one
C17_LakeMaskIsGeneratedWater ==
    topo.mode = "lake" /\ baseMask.defined =>
        \A r \in returned[<<"generate", 0, 0>>] :
            {c \in DOMAIN baseMask.data : baseMask.data[c]}
                = CellsOf(r.value, topo.cellSize)


\* C18: whatever calls and assignments of seed, noiseFrequency or cellSize
\* came before, the elevation grid that computeFlowDirections or
\* extractCoastlines has just read is the one built from the current
\* parameters, and flowDirGrid, when set, holds the flow directions of the
\* current elevation grid.
C18_GridsFollowParameters ==
    /\ tpc \in {"computeFlowDirections", "extractCoastlines"} =>
          elevationGrid = generateElevationGrid(topo)
    /\ flowDirGrid.defined => flowDirGrid = FlowDirections(elevationGrid)


\* C19: city elements never overlap water: when generateCity completes, no
\* building of the current city intersects a water cell of the current
\* topography.
C19_NoBuildingInWater ==
    [][pc = "done" /\ pc' = "idle" =>
          \A k \in DOMAIN currentCity'.buildings :
              ~isInWater(currentCity'.buildings[k].box, waterCells')]_vars


\* C20: pan and zoom redraws are throttled to the animation frame: at most
\* one render callback is pending at any time, and after the last pan or
\* zoom event a render runs that draws the renderer's final scale and
\* offsets.
C20_RedrawsThrottled ==
    /\ [](frames <= 1 /\ (renderRequested <=> frames = 1))
    /\ [](frames = 0 => drawn = view)
    /\ <>[](drawn = view)

\* the last event was handled while a callback was pending, and the
\* callback has drawn a view that two changes produced
C20_Witness ==
    /\ handled = MaxEvents
    /\ frames = 0
    /\ drawn = view
    /\ view.scale # InitialView.scale
    /\ view.offsetX # InitialView.offsetX

(***************************************************************************)
(* Further properties of the tile-collapse solver.                         *)
(***************************************************************************)
\* the tile ids of n's possibilities that are compatible with at least one
\* of the tile ids c still holds: what checking n against c leaves in n
CheckedAgainst(ts, n, c) ==
    SelectSeq(grid[n].possibilities,
              LAMBDA id : \E other \in Range(grid[c].possibilities) :
                             /\ FindTile(ts, id) # 0
                             /\ FindTile(ts, other) # 0
                             /\ TilesCompatible(ts, id, other))

\* C21: constraint propagation is not limited to one hop: when
\* propagateConstraints takes from its queue a neighbour whose possibility
\* set the collapse has shrunk (not emptied), its own uncollapsed neighbours
\* are re-checked against it, so that a cell two steps away from the
\* collapsed cell loses the tiles that no tile left in the neighbour admits.
C21_BeyondOneHop ==
    [][ ( /\ pc = "propagate" /\ queue # <<>>
          /\ Head(queue) \notin visited
          /\ Head(queue) # current
          /\ grid[Head(queue)].possibilities # <<>> )
            => \A n \in DOMAIN grid :
                 (Adjacent(Head(queue), n) /\ ~grid[n].collapsed)
                    => grid'[n].possibilities
                          = CheckedAgainst(tileset, n, Head(queue))
      ]_vars

\* what the solver does instead: a propagateConstraints call changes no cell
\* but the orthogonal neighbours of the cell it started from
C21_OnlyOneHop ==
    [][ (pc = "propagate" /\ pc' = "propagate")
            => \A n \in DOMAIN grid :
                 grid'[n] # grid[n] => Adjacent(current, n) ]_vars

(***************************************************************************)
(* Further properties of the terrain engine.                               *)
(***************************************************************************)
\* the in-bounds 8-neighbours of cell c of a rows x cols grid
EightNeighbours(c, rows, cols) ==
    {n \in GridCells(rows, cols) :
        /\ n # c
        /\ n[1] - c[1] \in {-1, 0, 1}
        /\ n[2] - c[2] \in {-1, 0, 1}}

\* C22: for every cell of every elevation grid, computeFlowDirections stores
\* null exactly when no in-bounds 8-neighbour is strictly lower than the
\* cell, and otherwise an in-bounds 8-neighbour that is strictly lower than
\* the cell and as low as every in-bounds neighbour of the cell.
C22_FlowIsSteepestDescent ==
    flowDirGrid.defined =>
        \A c \in GridCells(elevationGrid.rows, elevationGrid.cols) :
            LET around == EightNeighbours(c, elevationGrid.rows,
                                          elevationGrid.cols)
                lower == {n \in around :
                             elevationGrid.data[n] < elevationGrid.data[c]}
                next == flowDirGrid.data[c]
            IN  /\ next = NullCell <=> lower = {}
                /\ next # NullCell =>
                     /\ next \in lower
                     /\ \A n \in around :
                          elevationGrid.data[next] <= elevationGrid.data[n]

\* flow directions of a grid in which one cell has lower neighbours of two
\* different elevations, and another has neighbours but none lower
C22_Witness ==
    /\ flowDirGrid.defined
    /\ \E c \in GridCells(elevationGrid.rows, elevationGrid.cols) :
         \E n, m \in EightNeighbours(c, elevationGrid.rows, elevationGrid.cols) :
            /\ elevationGrid.data[n] < elevationGrid.data[m]
            /\ elevationGrid.data[m] < elevationGrid.data[c]
            /\ flowDirGrid.data[c] # NullCell
    /\ \E c \in GridCells(elevationGrid.rows, elevationGrid.cols) :
         /\ EightNeighbours(c, elevationGrid.rows, elevationGrid.cols) # {}
         /\ flowDirGrid.data[c] = NullCell

\* the offsets <<dj, di>> of the 8 neighbours clockwise from north:
\* N, NE, E, SE, S, SW, W, NW (row j - 1 is the row to the north)
ClockwiseFromNorth ==
    << <<-1, 0>>, <<-1, 1>>, <<0, 1>>, <<1, 1>>,
       <<1, 0>>, <<1, -1>>, <<0, -1>>, <<-1, -1>> >>

\* the first cell, in the order of a sequence of offsets from c, that is one
\* of the cells of a non-empty set
FirstAmong(c, offsets, cells) ==
    LET at(k) == <<c[1] + offsets[k][1], c[2] + offsets[k][2]>>
        first == CHOOSE k \in DOMAIN offsets :
                    /\ at(k) \in cells
                    /\ \A l \in 1..(k - 1) : at(l) \notin cells
    IN  at(first)

\* C23: when several neighbours of a cell share the lowest elevation,
\* computeFlowDirections selects the one that comes first in the scan that
\* starts at north and proceeds clockwise (N, NE, E, SE, S, SW, W, NW).
C23_TiesClockwiseFromNorth ==
    flowDirGrid.defined =>
        \A c \in GridCells(elevationGrid.rows, elevationGrid.cols) :
            LET around == EightNeighbours(c, elevationGrid.rows,
                                          elevationGrid.cols)
                lowest == {n \in around :
                             /\ elevationGrid.data[n] < elevationGrid.data[c]
                             /\ \A m \in around : elevationGrid.data[n]
                                                    <= elevationGrid.data[m]}
            IN  Cardinality(lowest) > 1 =>
                    flowDirGrid.data[c]
                        = FirstAmong(c, ClockwiseFromNorth, lowest)

\* what the code does: among the lowest neighbours, the first in the order of
\* its own scan, row by row from the north-west (NW, N, NE, W, E, SW, S, SE)
C23_TiesInScanOrder ==
    flowDirGrid.defined =>
        \A c \in GridCells(elevationGrid.rows, elevationGrid.cols) :
            LET around == EightNeighbours(c, elevationGrid.rows,
                                          elevationGrid.cols)
                lowest == {n \in around :
                             /\ elevationGrid.data[n] < elevationGrid.data[c]
                             /\ \A m \in around : elevationGrid.data[n]
                                                    <= elevationGrid.data[m]}
            IN  lowest # {} =>
                    flowDirGrid.data[c] = FirstAmong(c, NeighborScan, lowest)

\* the four edges of the square whose top left corner is <<j, i>>: the
\* midpoint of each and whether its two corners differ in the mask
SquareEdges(mask, j, i, cell) ==
    LET half == cell \div 2
    IN  { [mid |-> [x |-> i * cell + half, y |-> j * cell],
           differ |-> mask.data[<<j, i>>] # mask.data[<<j, i + 1>>]],
          [mid |-> [x |-> (i + 1) * cell, y |-> j * cell + half],
           differ |-> mask.data[<<j, i + 1>>] # mask.data[<<j + 1, i + 1>>]],
          [mid |-> [x |-> i * cell + half, y |-> (j + 1) * cell],
           differ |-> mask.data[<<j + 1, i>>] # mask.data[<<j + 1, i + 1>>]],
          [mid |-> [x |-> i * cell, y |-> j * cell + half],
           differ |-> mask.data[<<j, i>>] # mask.data[<<j + 1, i>>]] }

\* the number of segments the claim gives the square: none when its four
\* corners agree, two when they form a checkerboard, one otherwise
ExpectedSegments(mask, j, i) ==
    LET a == mask.data[<<j, i>>]
        b == mask.data[<<j, i + 1>>]
        c == mask.data[<<j + 1, i + 1>>]
        d == mask.data[<<j + 1, i>>]
    IN  IF a = b /\ b = c /\ c = d THEN 0
        ELSE IF a = c /\ b = d THEN 2
        ELSE 1

\* the masks marchingSquaresOnMask is given or can be given: the blobs'
\* masks and the base mask
MasksAtHand == {baseMask} \cup {blobs[k].mask : k \in DOMAIN blobs}

\* C24: for each 2x2 square of the mask, marchingSquaresOnMask emits no
\* segment when the corners agree (index 0 and 15), two segments for the two
\* checkerboards (5 and 10) and one segment for each of the other 12
\* patterns; every segment endpoint is the midpoint of an edge of the square
\* whose two corners differ, and every such edge carries exactly one
\* segment endpoint.
C24_SegmentsCrossMaskEdges ==
    \A mask \in MasksAtHand :
        \A j \in 0..(mask.rows - 2), i \in 0..(mask.cols - 2) :
            LET segs == SquareSegments(mask, j, i, topo.cellSize)
                ends == {<<k, e>> : k \in DOMAIN segs, e \in {1, 2}}
                crossed == {ed.mid : ed \in {e \in SquareEdges(mask, j, i,
                                                   topo.cellSize) : e.differ}}
            IN  /\ Len(segs) = ExpectedSegments(mask, j, i)
                /\ \A en \in ends : segs[en[1]][en[2]] \in crossed
                /\ \A m \in crossed :
                     Cardinality({en \in ends : segs[en[1]][en[2]] = m}) = 1

\* the loops have been extracted from a blob whose mask holds a checkerboard
\* square and a square with three corners set
C24_Witness ==
    /\ tpc = "loops"
    /\ loops # <<>>
    /\ \E k \in DOMAIN blobs :
         LET mask == blobs[k].mask
             squares == {<<j, i>> : j \in 0..(mask.rows - 2),
                                    i \in 0..(mask.cols - 2)}
             corners(q) == {c \in {q, <<q[1], q[2] + 1>>, <<q[1] + 1, q[2]>>,
                                   <<q[1] + 1, q[2] + 1>>} : mask.data[c]}
         IN  /\ \E q \in squares :
                  /\ ExpectedSegments(mask, q[1], q[2]) = 2
                  /\ Len(SquareSegments(mask, q[1], q[2], topo.cellSize)) = 2
             /\ \E q \in squares : Cardinality(corners(q)) = 3

\* the uncollapsed cells of entropy > 0
OpenCells == {c \in DOMAIN grid : OpenCell(c)}

\* C25: in each solver iteration, m being the minimum entropy over the
\* uncollapsed cells of entropy > 0: if m <= entropyThreshold the cell
\* collapsed in the iteration has entropy m; otherwise the cell picked is
\* some uncollapsed cell; and when no uncollapsed cell of entropy > 0 exists
\* the solver stops without changing the grid.
C25_PicksLowestEntropy ==
    [][ pc = "loop" =>
          IF OpenCells = {}
          THEN pc' = "done" /\ grid' = grid
          ELSE pc' = "propagate" =>
                 /\ \A c \in DOMAIN grid \ {current'} : grid'[c] = grid[c]
                 /\ ~grid[current'].collapsed
                 /\ (\E c \in OpenCells : grid[c].entropy <= entropyThreshold)
                      => /\ current' \in OpenCells
                         /\ \A c \in OpenCells :
                              grid[current'].entropy <= grid[c].entropy
                         /\ grid'[current'].collapsed
      ]_vars

\* the second iteration has just collapsed the one cell of entropy 1, a
\* neighbour of the first collapsed cell, the threshold being 1 and a cell of
\* entropy 2 being left
C25_Witness ==
    /\ pc = "propagate" /\ visited = {} /\ queue = <<current>>
    /\ iterations = 1
    /\ entropyThreshold = 1
    /\ grid[current].collapsed
    /\ \E c \in DOMAIN grid :
         /\ Adjacent(c, current)
         /\ grid[c].collapsed
         /\ Len(filterPossibilities(tileset,
                  initializeWFCGrid(tileset, gridWidth, gridHeight)[current]
                      .possibilities, grid[c].tileId)) = 1
    /\ \E c \in DOMAIN grid : OpenCell(c) /\ grid[c].entropy = 2
    /\ Cardinality({c \in DOMAIN grid : grid[c].entropy = 1}) = 0

\* the configured weight of tile id, in hundredths (0 for an id that is not
\* a tile of the catalog)
WeightOf(ts, id) ==
    IF FindTile(ts, id) = 0 THEN 0 ELSE ts.tiles[FindTile(ts, id)].weight

\* the number of slots a pool holds for tile id
Slots(pool, id) == Cardinality({k \in DOMAIN pool : pool[k] = id})

\* whether the step collapses cell c to a tile of positive weight out of the
\* possibilities c had, the pool's slots being proportional to the weights
DrawnByWeight(c) ==
    LET poss == grid[c].possibilities
        pool == WeightedPossibilities(tileset, poss)
        id == grid'[c].tileId
    IN  /\ id # Undefined
        /\ id \in Range(poss)
        /\ FindTile(tileset, id) # 0
        /\ WeightOf(tileset, id) > 0
        /\ \A a, b \in Range(poss) :
             Slots(pool, a) * WeightOf(tileset, b)
                = Slots(pool, b) * WeightOf(tileset, a)

\* C26: collapseCell resolves a cell to a tile id that was in the cell's
\* possibility set immediately before the collapse, drawn from a pool in
\* which each possible tile has a number of slots proportional to its
\* weight, so that a tile outside the set or of weight 0 is never chosen and
\* the resolved tile is always a defined tile id.
C26_CollapseIsWeightedChoice ==
    [][ \A c \in DOMAIN grid :
          (~grid[c].collapsed /\ grid'[c].collapsed) => DrawnByWeight(c) ]_vars

\* what collapseCell guarantees: the same, for a cell one of whose possible
\* tiles has a weight above 0
C26_WeightedChoiceWhenSomeWeight ==
    [][ \A c \in DOMAIN grid :
          ( /\ ~grid[c].collapsed /\ grid'[c].collapsed
            /\ \E id \in Range(grid[c].possibilities) :
                  WeightOf(tileset, id) > 0 )
             => DrawnByWeight(c) ]_vars

\* C27: cell state only moves forward during a tile-collapse run: the
\* possibility set an uncollapsed cell has after any step is a subset of the
\* set it had before the step, and once a cell is collapsed its collapsed
\* flag, resolved tile, possibilities and entropy never change again.
C27_CellsOnlyMoveForward ==
    [][ \A c \in DOMAIN grid :
          IF grid[c].collapsed
          THEN grid'[c] = grid[c]
          ELSE Range(grid'[c].possibilities)
                  \subseteq Range(grid[c].possibilities) ]_vars

\* what the solver guarantees: a collapsed cell is never changed again, and
\* an uncollapsed cell's set only shrinks, but for the collapse of a cell
\* whose possible tiles all have weight 0
C27_ForwardButForEmptyPools ==
    [][ \A c \in DOMAIN grid :
          IF grid[c].collapsed
          THEN grid'[c] = grid[c]
          ELSE \/ Range(grid'[c].possibilities)
                     \subseteq Range(grid[c].possibilities)
               \/ /\ grid'[c].collapsed
                  /\ grid'[c].tileId = Undefined
                  /\ \A id \in Range(grid[c].possibilities) :
                        WeightOf(tileset, id) = 0 ]_vars

\* the collapsed cells of the grid
CollapsedCells == {c \in DOMAIN grid : grid[c].collapsed}

\* C28: with the built-in fallback catalog no contradiction is reachable:
\* the road and empty tiles stay possible in every uncollapsed cell, every
\* solver iteration collapses exactly one cell, and for every grid size,
\* entropyThreshold and sequence of draws the solver ends with all cells
\* collapsed after exactly gridWidth * gridHeight iterations.
C28_FallbackNeverContradicts ==
    /\ \A c \in DOMAIN grid :
         ~grid[c].collapsed =>
            /\ grid[c].entropy >= 1
            /\ {4, 5, 6} \subseteq Range(grid[c].possibilities)
    /\ \A c \in CollapsedCells : FindTile(tileset, grid[c].tileId) # 0
    /\ Cardinality(CollapsedCells)
          = iterations + (IF pc = "propagate" THEN 1 ELSE 0)
    /\ pc = "done" => /\ CollapsedCells = DOMAIN grid
                      /\ iterations = gridWidth * gridHeight

\* the solver has returned from a grid of MaxFallbackCells cells in which an
\* industrial tile lies beside a road, having taken the random branch
C28_Witness ==
    /\ pc = "done"
    /\ tileset = createFallbackTileset
    /\ gridWidth * gridHeight = MaxFallbackCells
    /\ entropyThreshold = 1
    /\ \E c, n \in DOMAIN grid :
         /\ Adjacent(c, n)
         /\ grid[c].tileId = 2
         /\ grid[n].tileId \in {4, 5}


\* the generateCity invocations between `this.isGenerating = true` and the
\* `finally` that resets it
InFlight ==
    {i \in DOMAIN invocations : invocations[i].at \in {"awaiting", "blended"}}

\* C29: at most one generateCity invocation is between setting isGenerating
\* and resetting it; isGenerating is true exactly while one is, so it is false
\* again after every invocation has ended, one whose algorithm threw included;
\* and an invocation that starts while isGenerating is true returns at once,
\* having called no generate and no render and changed nothing.
C29_MutuallyExclusiveAndReleased ==
    /\ [](/\ Cardinality(InFlight) <= 1
          /\ isGenerating <=> (InFlight # {}))
    /\ [][ \A i \in DOMAIN invocations :
             (invocations[i].at = "new" /\ invocations'[i].at # "new"
                 /\ isGenerating)
                => /\ invocations'[i] = Ended("skipped", FALSE, 0)
                   /\ UNCHANGED <<isGenerating, currentCity, drawn, published,
                                  waterCells, coastPolygons, Math_seed>> ]_vars

\* one invocation was turned away while another was awaiting its generator,
\* that generator then threw, and the guard is released
C29_Witness ==
    /\ ~isGenerating
    /\ \E i, j \in DOMAIN invocations :
         /\ invocations[i].at = "caught"
         /\ invocations[j].at = "skipped"

\* C30: no step of generateCity changes this.waterCells or this.coastPolygons,
\* whatever the randomness.
C30_WaterUnchanged ==
    [][waterCells' = waterCells /\ coastPolygons' = coastPolygons]_vars

\* What does hold: the coastline polygons never change, and the water cells
\* change only in a blend with randomness above 0 and no coastline polygon.
C30_WaterMovesOnlyWithoutCoastline ==
    [][ /\ coastPolygons' = coastPolygons
        /\ (waterCells' # waterCells)
              => /\ coastPolygons = <<>>
                 /\ \E i \in DOMAIN invocations :
                      /\ invocations[i].at = "awaiting"
                      /\ invocations[i].randomness > 0
                      /\ invocations'[i].at = "blended" ]_vars

======================================================================
